---- MODULE Spec2Model ----
(***************************************************************************)
(* Model of the rtsp-camera node of bubbaloop-nodes-official:              *)
(*   - H264StreamCapture  (src/rtsp-camera/src/h264_capture.rs)            *)
(*   - VideoH264Decoder   (src/rtsp-camera/src/h264_decode.rs)             *)
(*   - RtspCameraNode     (src/rtsp-camera/src/rtsp_camera_node.rs)        *)
(*   - the shutdown channel and Ctrl+C handler of main                     *)
(*                        (src/rtsp-camera/src/main.rs)                    *)
(*                                                                         *)
(* The library objects the code is built on are modelled by what they do:  *)
(*   tokio::sync::watch   a version counter; a receiver remembers the      *)
(*                        version it has seen; send() fails, and changes   *)
(*                        nothing, while there is no receiver;             *)
(*   flume::unbounded     a FIFO sequence without capacity limit that is   *)
(*                        disconnected only when every Sender is dropped;  *)
(*   GStreamer pipeline   its state (Null / Playing), the appsink's        *)
(*                        bounded sample queue, the appsrc's input queue.  *)
(***************************************************************************)
EXTENDS Integers, Sequences, FiniteSets, TLC

\* ------------------------------------------------------------------ bounds
\* native samples the RTSP source delivers in one run
MaxFrames == 3
\* times the Ctrl+C handler runs
MaxSignals == 1
\* public operations a client of the session API issues (SessionSpec)
MaxCalls == 4

\* resolution of the monotonic clock: ticks in one second
TicksPerSec == 60
\* loop bodies of compressed_task in a run of its statistics (StatsSpec)
MaxBodies == 32
\* publishes the sink refuses in such a run
MaxFailures == 2

\* ------------------------------------------------------- program constants
\* a u32 is kept as two 16-bit limbs <<hi, lo>>, its value hi * 2^16 + lo, so
\* that the counters have their full width of 32 bits (h264_capture.rs:78)
Limb == 65536
\* appsink ... max-buffers=2 drop=true (h264_capture.rs:60)
MaxBuffers == 2

VARIABLES
    \* tokio::sync::watch channel created in main
    version,        \* version of the watched value
    rxCount,        \* number of live Receivers
    sigSent,        \* times the Ctrl+C handler has called send()
    \* RtspCameraNode::run
    run_pc, run_seen, run_result,
    \* RtspCameraNode::compressed_task
    task_pc, task_seen, task_end, cur, published,
    \* H264StreamCapture
    capState,       \* "Absent" | "Null" | "Playing" | "Dropped"
    capCloses,      \* number of close() calls so far
    capSeq,         \* `sequence` captured by the new_sample closure
    capQ,           \* flume channel tx -> rx
    capSink,        \* samples pending in the appsink
    capArrived,     \* native samples rendered so far
    sinkDropped,    \* samples the appsink dropped (drop=true)
    \* VideoH264Decoder
    decState, decCloses,
    decEos,         \* appsrc has been sent end_of_stream
    decSrcQ,        \* buffers queued in appsrc, not yet decoded
    decQ,           \* flume channel frame_tx -> frame_rx
    decSeq,         \* AtomicU32 shared with the callback
    decHalted,      \* the streaming thread stopped on FlowError::Error
    \* clients of the two receivers (SessionSpec)
    capCons, decCons, calls,
    \* history
    closeLog,       \* every close() call, in order, with its result
    enqLog,         \* frames sent into capQ, in order
    deqLog,         \* frames received from capQ, in order
    pushLog,        \* every decoder.push call, in order, with its result
    pubLog,         \* every async_publish call, in order, with its result
    decRecvLog,     \* decoded frames received from decQ
    queuedAtFire,   \* bytes of frames queued in capQ when a signal reached the task
    midFire,        \* bytes of the frame in flight when a signal was sent, or 0
    \* the capture pipeline's streaming thread
    capHalted,      \* it stopped because new_sample returned a flow error
    sampleLog,      \* history: every native sample rendered, in order
    \* throughput statistics of compressed_task
    now,            \* the monotonic clock (Instant::now()), in ticks
    last_log, last_published_count,
    bodies,         \* loop bodies of compressed_task completed so far
    fpsLog,         \* history: every throughput line logged
    okSince,        \* history: successful publishes since the last line
    sinceAt,        \* history: time of the last line, or of the task's start
    evenRun,        \* history: length of the even run of publishes, or -1
    lastOkAt,       \* history: time of the latest successful publish
    \* the decoder's configuration and the pipeline built from it
    config, decPipeline,
    \* the health publisher of run
    hbSent,         \* history: health_publisher.put("ok") has been called
    \* a configuration handed to parse / validate, and what came back
    parseInput, parseResult,
    \* the weather node's run: its loop, the clock in seconds, the pending
    \* shutdown signal, the next deadline of each interval, the location and
    \* the queued location updates, the three sequence counters
    wx_pc, wx_now, wx_shutdown,
    current_interval, hourly_interval, daily_interval, wx_health_interval,
    location, location_rx, current_seq, hourly_seq, daily_seq,
    fetchLog,       \* history: every fetch, with stream, time, location, result
    putLog,         \* history: every put of a weather message, with its result
    lastUpdate,     \* history: when the latest location update was handled
    wxBase,         \* history: the counters' value when the history starts
    \* the inference node's receive loop: the pending shutdown signal, the
    \* subscriber's queue and the two counters
    inf_pc, inf_shutdown, subscriber, frame_count, total_dropped,
    inf_hb,         \* history: a heartbeat has been put
    arrived,        \* history: the number of samples that reached the subscriber
    recvLog,        \* history: every iteration's batch, sample and decode result
    \* the recorder node: run's position, the watch channel's version and the
    \* version each receiver has seen, the subscription tasks, the flume
    \* channel, the records written and the calls of writer.finish()
    rec_pc, rec_version, rec_seen, sub_pc, sub_seen, rec_channel, mcap, finished,
    rec_published,  \* history: the number of samples published on the topics
    rec_signalled   \* history: a shutdown signal was sent after run started

watchVars == <<version, rxCount, sigSent>>
runVars   == <<run_pc, run_seen, run_result>>
taskVars  == <<task_pc, task_seen, task_end, cur, published>>
capVars   == <<capState, capCloses, capSeq, capQ, capSink, capArrived, sinkDropped>>
decVars   == <<decState, decCloses, decEos, decSrcQ, decQ, decSeq, decHalted>>
consVars  == <<capCons, decCons, calls>>
histVars  == <<closeLog, enqLog, deqLog, pushLog, pubLog, decRecvLog, queuedAtFire, midFire>>
sampVars  == <<capHalted, sampleLog>>
statsVars == <<now, last_log, last_published_count, bodies, fpsLog,
               okSince, sinceAt, evenRun, lastOkAt>>
topoVars  == <<config, decPipeline>>
healthVars == <<hbSent>>
parseVars == <<parseInput, parseResult>>
weatherVars == <<wx_pc, wx_now, wx_shutdown, current_interval, hourly_interval,
                 daily_interval, wx_health_interval, location, location_rx,
                 current_seq, hourly_seq, daily_seq, fetchLog, putLog, lastUpdate, wxBase>>
inferVars == <<inf_pc, inf_shutdown, subscriber, frame_count, total_dropped,
               inf_hb, arrived, recvLog>>
\* the state of the nodes other than the camera
recVars == <<rec_pc, rec_version, rec_seen, sub_pc, sub_seen, rec_channel, mcap,
             finished, rec_published, rec_signalled>>
nodeVars == <<weatherVars, inferVars, recVars>>
\* the state of the camera node
camVars == <<watchVars, runVars, taskVars, capVars, decVars, consVars, histVars,
             sampVars, statsVars, topoVars, healthVars>>
vars == <<watchVars, runVars, taskVars, capVars, decVars, consVars, histVars,
          sampVars, statsVars, topoVars, healthVars, parseVars, nodeVars>>

\* the camera configuration of the runs below: name, decoder, width and
\* height as a config file gives them (config.rs:141-147)
ExampleConfig == [name |-> "entrance", decoder |-> "cpu", width |-> 640, height |-> 480]

\* the capture streaming thread runs, no sample has been rendered
SampIdle == capHalted = FALSE /\ sampleLog = <<>>
\* compressed_task has not started its statistics (lines 86-88)
StatsIdle ==
    /\ now = 0 /\ last_log = 0 /\ last_published_count = 0 /\ bodies = 0
    /\ fpsLog = <<>> /\ okSince = 0 /\ sinceAt = 0 /\ evenRun = 0 /\ lastOkAt = 0
\* no configuration is being parsed or validated
NoResult == [kind |-> "none"]
ParseIdle == parseInput = <<>> /\ parseResult = NoResult
\* no location update has been handled: the time of the latest one, the
\* number of fetches made before it, and the number of updates so far
NoUpdate == [at |-> -1, fetches |-> 0, count |-> 0]
\* the weather node is not running
WeatherIdle ==
    /\ wx_pc = "idle" /\ wx_now = 0 /\ wx_shutdown = FALSE
    /\ current_interval = 0 /\ hourly_interval = 0 /\ daily_interval = 0
    /\ wx_health_interval = 0 /\ location = 0 /\ location_rx = <<>>
    /\ current_seq = <<0, 0>> /\ hourly_seq = <<0, 0>> /\ daily_seq = <<0, 0>>
    /\ fetchLog = <<>> /\ putLog = <<>> /\ lastUpdate = NoUpdate /\ wxBase = <<0, 0>>
\* the inference node is not running
InferIdle ==
    /\ inf_pc = "idle" /\ inf_shutdown = FALSE /\ subscriber = <<>>
    /\ frame_count = 0 /\ total_dropped = 0 /\ inf_hb = FALSE
    /\ arrived = 0 /\ recvLog = <<>>
\* the topics of the recorder's configuration
RecTopics == {1, 2}
\* the recorder node is not running
RecIdle ==
    /\ rec_pc = "idle" /\ rec_version = 0 /\ rec_seen = 0
    /\ sub_pc = [t \in RecTopics |-> "none"] /\ sub_seen = [t \in RecTopics |-> 0]
    /\ rec_channel = <<>> /\ mcap = <<>> /\ finished = 0
    /\ rec_published = 0 /\ rec_signalled = FALSE
NodeIdle == WeatherIdle /\ InferIdle /\ RecIdle
\* no decoder pipeline has been built
TopoIdle == config = ExampleConfig /\ decPipeline = <<>>

NoFrame == [bytes |-> 0, seq |-> <<0, 0>>, pts |-> 0, keyframe |-> FALSE]

\* Option<u64> is the empty set or a singleton
Some(x) == {x}
None == {}
UnwrapOr(opt, d) == IF opt = {} THEN d ELSE CHOOSE x \in opt : TRUE
OrElse(opt, other) == IF opt = {} THEN other ELSE opt

\* The native buffer that arrives as the i-th sample of the stream: a key
\* frame with both timestamps first, then delta frames that carry both
\* timestamps, a DTS only, or no timing at all. Each of them may turn out
\* unreadable (the sample cannot be pulled, or its buffer cannot be mapped).
SampleShape(i) ==
    CASE i = 1     -> [pts |-> Some(10 * i), dts |-> Some(10 * i), delta |-> FALSE]
      [] i % 3 = 2 -> [pts |-> None, dts |-> Some(10 * i), delta |-> TRUE]
      [] i % 3 = 0 -> [pts |-> None, dts |-> None, delta |-> TRUE]
      [] OTHER     -> [pts |-> Some(10 * i), dts |-> Some(10 * i), delta |-> TRUE]

Samples(i) ==
    { [bytes |-> i, pts |-> SampleShape(i).pts, dts |-> SampleShape(i).dts,
       delta |-> SampleShape(i).delta, readable |-> r] : r \in BOOLEAN }

\* The Sender of each delivery channel is owned by the new_sample closure,
\* the closure by the appsink, the appsink by the pipeline, the pipeline by
\* the session: the Sender lives exactly as long as the session object.
capTx == capState \in {"Null", "Playing"}
decTx == decState \in {"Null", "Playing"}

\* ============================================================ tokio watch
\* Sender::send: fails and leaves the value untouched when no receiver exists
watch_send(ver, receivers) == IF receivers = 0 THEN ver ELSE ver + 1

\* Sender::subscribe: the new receiver has seen the current version
watch_subscribe(ver) == ver

\* Receiver::changed is ready when the version differs from the one seen
watch_changed(ver, seen) == ver # seen

\* ============================================================ u32 counter
U32Zero == <<0, 0>>
U32Max == <<Limb - 1, Limb - 1>>

\* u32::wrapping_add(1), also what AtomicU32::fetch_add(1) stores
wrapping_add(x) ==
    IF x[2] + 1 < Limb THEN <<x[1], x[2] + 1>> ELSE <<(x[1] + 1) % Limb, 0>>

\* b - a modulo 2^32 (u32::wrapping_sub)
wrapping_sub(b, a) ==
    IF b[2] >= a[2]
    THEN <<(b[1] - a[1]) % Limb, b[2] - a[2]>>
    ELSE <<(b[1] - a[1] - 1) % Limb, b[2] - a[2] + Limb>>


\* ====================================================== H264StreamCapture
\* appsink with max-buffers=2 drop=true: when the queue is full the oldest
\* sample is dropped, then the new one is queued
appsink_render(queue, s) ==
    IF Len(queue) >= MaxBuffers THEN Append(Tail(queue), s) ELSE Append(queue, s)

appsink_dropped(queue) == IF Len(queue) >= MaxBuffers THEN 1 ELSE 0

\* H264StreamCapture::handle_sample: Err when the sample cannot be pulled or
\* the buffer cannot be mapped; pts falls back to dts, then to 0
handle_sample(s, sequence) ==
    IF ~s.readable
    THEN [ok |-> FALSE, frame |-> NoFrame]
    ELSE [ok |-> TRUE,
          frame |-> [bytes |-> s.bytes,
                     seq |-> sequence,
                     pts |-> UnwrapOr(OrElse(s.pts, s.dts), 0),
                     keyframe |-> ~s.delta]]

\* a channel of capacity one: the frame is refused while another waits
try_send_bounded(queue, connected, f) ==
    IF connected /\ queue = <<>> THEN Append(queue, f) ELSE queue

\* a channel that hands out the newest frame first
try_send_front(queue, connected, f) == IF connected THEN <<f>> \o queue ELSE queue

\* tx.try_send on the unbounded channel: queued unless the receiver is gone
try_send(queue, connected, f) == IF connected THEN Append(queue, f) ELSE queue

\* a new_sample closure that hands its extraction error to the pipeline
new_sample_return_err(ok) == IF ok THEN "Ok" ELSE "Error"

\* what the new_sample closure returns to the appsink (line 84):
\* Ok(FlowSuccess::Ok), whether or not the frame was extracted
new_sample_return(ok) == "Ok"

\* the new_sample closure, run by the pipeline's streaming thread for every
\* sample the appsink renders: the sample is pulled at once, numbered and
\* sent. A flow error returned to the appsink would stop the streaming thread.
Capture_new_sample ==
    /\ capState = "Playing"
    /\ ~capHalted
    /\ capArrived < MaxFrames
    /\ \E s \in Samples(capArrived + 1) :
         LET rendered == appsink_render(capSink, s)
             r == handle_sample(Head(rendered), capSeq)
         IN /\ sinkDropped' = sinkDropped + appsink_dropped(capSink)
            /\ capSink' = Tail(rendered)
            /\ capArrived' = capArrived + 1
            /\ sampleLog' = Append(sampleLog, s)
            /\ capHalted' = (new_sample_return(r.ok) # "Ok")
            /\ IF r.ok
               THEN /\ capSeq' = wrapping_add(capSeq)
                    /\ capQ' = try_send(capQ, capTx, r.frame)
                    /\ enqLog' = Append(enqLog, r.frame)
               ELSE UNCHANGED <<capSeq, capQ, enqLog>>
    /\ UNCHANGED <<capState, capCloses>>
    /\ UNCHANGED <<watchVars, runVars, taskVars, decVars, consVars>>
    /\ UNCHANGED <<closeLog, deqLog, pushLog, pubLog, decRecvLog, queuedAtFire, midFire>>
    /\ UNCHANGED <<statsVars, topoVars, healthVars, parseVars, nodeVars>>

\* pipeline.send_event(Eos) is accepted only by a running pipeline
send_event_eos(state) == state = "Playing"

\* close() returning the failure of the EOS event (`?` in place of `let _ =`)
capture_close_strict(eosAccepted) == IF eosAccepted THEN "Ok" ELSE "Err"

\* H264StreamCapture::close: the result of the EOS event is discarded
\* (let _ =), set_state(Null) succeeds from every state
capture_close_result(eosAccepted) == "Ok"

\* H264StreamCapture::start: pipeline.set_state(Playing), from any state
capture_start_state(state, ok) == IF ok THEN "Playing" ELSE state

H264StreamCapture_start(ok) ==
    /\ capState' = capture_start_state(capState, ok)
    /\ UNCHANGED <<capCloses, capSeq, capQ, capSink, capArrived, sinkDropped>>

H264StreamCapture_close ==
    LET r == capture_close_result(send_event_eos(capState))
    IN /\ capState' = "Null"
       /\ capSink' = <<>>
       /\ capCloses' = capCloses + 1
       /\ closeLog' = Append(closeLog, [s |-> "capture", r |-> r])
       /\ UNCHANGED <<capSeq, capQ, capArrived, sinkDropped>>

\* a capture session without a Drop implementation: the fields are dropped,
\* close() is not called
H264StreamCapture_drop_noclose ==
    /\ capState' = "Dropped"
    /\ UNCHANGED <<capSink, capCloses, closeLog, capSeq, capQ, capArrived, sinkDropped>>

\* Drop for H264StreamCapture: close(), then the fields are dropped; the
\* pipeline owns the closure that owns the Sender
H264StreamCapture_drop ==
    LET r == capture_close_result(send_event_eos(capState))
    IN /\ capState' = "Dropped"
       /\ capSink' = <<>>
       /\ capCloses' = capCloses + 1
       /\ closeLog' = Append(closeLog, [s |-> "capture", r |-> r])
       /\ UNCHANGED <<capSeq, capQ, capArrived, sinkDropped>>

\* ======================================================= VideoH264Decoder
\* an appsrc that takes a buffer in whatever state it is
appsrc_push_unchecked(state, eos) == "Ok"

\* gst_app_src_push_buffer: refused while the element is flushing (not
\* running) or after end_of_stream
appsrc_push_buffer(state, eos) ==
    IF state = "Playing" /\ ~eos THEN "Ok" ELSE "PushError"

\* impl From<config::DecoderBackend> for h264_decode::DecoderBackend
DecoderBackend_from(decoder) ==
    CASE decoder = "cpu"    -> "Software"
      [] decoder = "nvidia" -> "Nvidia"
      [] decoder = "jetson" -> "Jetson"

\* one stage of a pipeline description: an element, or a caps filter
Element(name) == [el |-> name]
CapsFilter(width, height) ==
    [el |-> "caps", media |-> "video/x-raw", format |-> "RGBA",
     width |-> width, height |-> height]

\* DecoderBackend::pipeline_segment: the stages that decode, convert and
\* scale, and whether the scaling is already done in them
pipeline_segment(backend, width, height) ==
    CASE backend = "Software" ->
           [segment |-> <<Element("avdec_h264"), Element("videoconvert"),
                          Element("videoscale")>>,
            gpu_scaled |-> FALSE]
      [] backend = "Nvidia" ->
           [segment |-> <<Element("nvh264dec"), Element("nvvidconv"),
                          CapsFilter(width, height)>>,
            gpu_scaled |-> TRUE]
      [] backend = "Jetson" ->
           [segment |-> <<Element("nvv4l2decoder"), Element("nvvidconv"),
                          CapsFilter(width, height)>>,
            gpu_scaled |-> TRUE]

\* a constructor that adds the caps filter for every backend
pipeline_desc_always_caps(backend, height, width) ==
    <<Element("appsrc"), Element("h264parse")>>
        \o pipeline_segment(backend, width, height).segment
        \o <<CapsFilter(width, height), Element("appsink")>>

\* VideoH264Decoder::new(backend, height, width), lines 116-136: the
\* description handed to gstreamer::parse::launch
pipeline_desc(backend, height, width) ==
    LET seg == pipeline_segment(backend, width, height)
    IN IF seg.gpu_scaled
       THEN <<Element("appsrc"), Element("h264parse")>>
                \o seg.segment \o <<Element("appsink")>>
       ELSE <<Element("appsrc"), Element("h264parse")>>
                \o seg.segment \o <<CapsFilter(width, height), Element("appsink")>>

\* the decoder of the example configuration has been built
TopoBuilt ==
    /\ config = ExampleConfig
    /\ decPipeline = pipeline_desc(DecoderBackend_from(config.decoder),
                                   config.height, config.width)

\* a push that flags the key frames instead of the delta frames
push_buffer_inverted(bytes, pts, keyframe) ==
    [bytes |-> bytes, pts |-> pts, delta |-> keyframe]

\* VideoH264Decoder::push: the buffer carries a copy of the bytes, the pts
\* and DELTA_UNIT when the frame is no keyframe
push_buffer(bytes, pts, keyframe) ==
    [bytes |-> bytes, pts |-> pts, delta |-> ~keyframe]

VideoH264Decoder_push(bytes, pts, keyframe) ==
    LET r == appsrc_push_buffer(decState, decEos)
        b == push_buffer(bytes, pts, keyframe)
    IN /\ decSrcQ' = IF r = "Ok" THEN Append(decSrcQ, b) ELSE decSrcQ
       /\ pushLog' = Append(pushLog, [buf |-> b, r |-> r, closed |-> decCloses > 0,
                                   key |-> keyframe])
       /\ UNCHANGED <<decState, decCloses, decEos, decQ, decSeq, decHalted>>

\* appsrc.end_of_stream(): Ok on a running appsrc, an error otherwise
appsrc_end_of_stream(state, eos) == state = "Playing"

\* VideoH264Decoder::close: the result of end_of_stream is discarded (.ok()),
\* set_state(Null) succeeds from every state
decoder_close_result(eosAccepted) == "Ok"

VideoH264Decoder_close ==
    LET r == decoder_close_result(appsrc_end_of_stream(decState, decEos))
    IN /\ decEos' = (decEos \/ appsrc_end_of_stream(decState, decEos))
       /\ decState' = "Null"
       /\ decSrcQ' = <<>>
       /\ decCloses' = decCloses + 1
       /\ closeLog' = Append(closeLog, [s |-> "decoder", r |-> r])
       /\ UNCHANGED <<decQ, decSeq, decHalted>>

VideoH264Decoder_drop ==
    LET r == decoder_close_result(appsrc_end_of_stream(decState, decEos))
    IN /\ decEos' = (decEos \/ appsrc_end_of_stream(decState, decEos))
       /\ decState' = "Dropped"
       /\ decSrcQ' = <<>>
       /\ decCloses' = decCloses + 1
       /\ closeLog' = Append(closeLog, [s |-> "decoder", r |-> r])
       /\ UNCHANGED <<decQ, decSeq, decHalted>>

\* a frame numbered with the counter's value after the increment
handle_decoded_sample_incremented(b, sequence, readable) ==
    IF ~readable
    THEN [ok |-> FALSE, frame |-> [seq |-> <<0, 0>>, pts |-> 0, src |-> 0]]
    ELSE [ok |-> TRUE,
          frame |-> [seq |-> wrapping_add(sequence), pts |-> b.pts, src |-> b.bytes]]

\* VideoH264Decoder::handle_decoded_sample: the counter advances (fetch_add)
\* only when the sample was pulled, had caps and could be mapped
handle_decoded_sample(b, sequence, readable) ==
    IF ~readable
    THEN [ok |-> FALSE, frame |-> [seq |-> <<0, 0>>, pts |-> 0, src |-> 0]]
    ELSE [ok |-> TRUE, frame |-> [seq |-> sequence, pts |-> b.pts, src |-> b.bytes]]

\* The decoder pipeline's streaming thread takes the next queued buffer. It
\* yields no picture, or a picture for which the new_sample closure runs:
\* Ok -> frame_tx.send; Err -> FlowError::Error, which stops the streaming
\* thread.
Decoder_new_sample ==
    /\ decState = "Playing"
    /\ ~decHalted
    /\ decSrcQ # <<>>
    /\ decSrcQ' = Tail(decSrcQ)
    /\ \E out \in {"none", "ok", "unreadable"} :
         LET r == handle_decoded_sample(Head(decSrcQ), decSeq, out = "ok")
         IN IF out = "none"
            THEN UNCHANGED <<decQ, decSeq, decHalted>>
            ELSE IF r.ok
            THEN /\ decQ' = Append(decQ, r.frame)
                 /\ decSeq' = wrapping_add(decSeq)
                 /\ UNCHANGED decHalted
            ELSE /\ decHalted' = TRUE
                 /\ UNCHANGED <<decQ, decSeq>>
    /\ UNCHANGED <<decState, decCloses, decEos>>
    /\ UNCHANGED <<watchVars, runVars, taskVars, capVars, consVars, histVars>>
    /\ UNCHANGED <<sampVars, statsVars, topoVars, healthVars, parseVars, nodeVars>>


\* ============================================================== main
\* The Ctrl+C handler (main.rs:59-62): shutdown_tx.send(()), result ignored.
CtrlC ==
    /\ sigSent < MaxSignals
    /\ run_pc # "done"
    /\ sigSent' = sigSent + 1
    /\ version' = watch_send(version, rxCount)
    /\ queuedAtFire' =
         IF version' # version /\ task_pc \in {"create_pub", "select", "push", "publish"}
         THEN queuedAtFire \cup { capQ[i].bytes : i \in 1..Len(capQ) }
         ELSE queuedAtFire
    /\ midFire' = IF task_pc \in {"push", "publish"} THEN cur.bytes ELSE midFire
    /\ UNCHANGED <<rxCount, runVars, taskVars, capVars, decVars, consVars>>
    /\ UNCHANGED <<closeLog, enqLog, deqLog, pushLog, pubLog, decRecvLog>>
    /\ UNCHANGED <<sampVars, statsVars, topoVars, healthVars, parseVars, nodeVars>>

\* ================================================ RtspCameraNode::run
\* select! without `biased`: any ready branch may be taken
select_unbiased(shutdownReady, otherReady) ==
    (IF shutdownReady THEN {"shutdown"} ELSE {}) \cup (IF otherReady THEN {"other"} ELSE {})

\* tokio::select! { biased; ... }: the branches are polled in the order
\* written, the first ready one is taken
select_biased(shutdownReady, otherReady) ==
    IF shutdownReady THEN {"shutdown"} ELSE IF otherReady THEN {"other"} ELSE {}

\* lines 159-162: H264StreamCapture::new(..)?
Run_NewCapture ==
    /\ run_pc = "new_capture"
    /\ \E ok \in BOOLEAN :
         IF ok
         THEN /\ capState' = "Null"
              /\ capSeq' = U32Zero
              /\ capQ' = <<>>
              /\ run_pc' = "start"
              /\ UNCHANGED run_result
         ELSE /\ run_result' = "Err"
              /\ run_pc' = "done"
              /\ UNCHANGED <<capState, capSeq, capQ>>
    /\ UNCHANGED <<run_seen, capCloses, capSink, capArrived, sinkDropped>>
    /\ UNCHANGED <<watchVars, taskVars, decVars, consVars, histVars>>
    /\ UNCHANGED <<sampVars, statsVars, topoVars, healthVars, parseVars, nodeVars>>

\* run going on with a capture session that did not start
Run_Start_lenient ==
    /\ run_pc = "start"
    /\ \E ok \in BOOLEAN :
         /\ H264StreamCapture_start(ok)
         /\ IF ok
            THEN run_pc' = "new_decoder" /\ UNCHANGED run_result
            ELSE run_pc' = "new_decoder" /\ UNCHANGED run_result
    /\ UNCHANGED <<run_seen, watchVars, taskVars, decVars, consVars, histVars>>
    /\ UNCHANGED <<sampVars, statsVars, topoVars, healthVars, parseVars, nodeVars>>

\* line 164: capture.start()?
Run_Start ==
    /\ run_pc = "start"
    /\ \E ok \in BOOLEAN :
         /\ H264StreamCapture_start(ok)
         /\ IF ok
            THEN run_pc' = "new_decoder" /\ UNCHANGED run_result
            ELSE run_pc' = "drop_capture" /\ run_result' = "Err"
    /\ UNCHANGED <<run_seen, watchVars, taskVars, decVars, consVars, histVars>>
    /\ UNCHANGED <<sampVars, statsVars, topoVars, healthVars, parseVars, nodeVars>>

\* run going on without a decoder when its construction fails
Run_NewDecoder_lenient ==
    /\ run_pc = "new_decoder"
    /\ \E ok \in BOOLEAN :
         IF ok
         THEN /\ decState' = "Playing"
              /\ decSeq' = U32Zero
              /\ decQ' = <<>>
              /\ decPipeline' = pipeline_desc(DecoderBackend_from(config.decoder),
                                              config.height, config.width)
         ELSE UNCHANGED <<decState, decSeq, decQ, decPipeline>>
    /\ run_pc' = "declare_health"
    /\ UNCHANGED <<run_seen, run_result, decCloses, decEos, decSrcQ, decHalted, config>>
    /\ UNCHANGED <<watchVars, taskVars, capVars, consVars, histVars>>
    /\ UNCHANGED <<sampVars, statsVars, healthVars, parseVars, nodeVars>>

\* lines 167-172: VideoH264Decoder::new(decoder_backend, config.height,
\* config.width)?, which builds the pipeline and sets it Playing
Run_NewDecoder ==
    /\ run_pc = "new_decoder"
    /\ \E ok \in BOOLEAN :
         IF ok
         THEN /\ decState' = "Playing"
              /\ decSeq' = U32Zero
              /\ decQ' = <<>>
              /\ decPipeline' = pipeline_desc(DecoderBackend_from(config.decoder),
                                              config.height, config.width)
              /\ run_pc' = "declare_health"
              /\ UNCHANGED run_result
         ELSE /\ run_result' = "Err"
              /\ run_pc' = "drop_capture"
              /\ UNCHANGED <<decState, decSeq, decQ, decPipeline>>
    /\ UNCHANGED <<run_seen, decCloses, decEos, decSrcQ, decHalted, config>>
    /\ UNCHANGED <<watchVars, taskVars, capVars, consVars, histVars>>
    /\ UNCHANGED <<sampVars, statsVars, healthVars, parseVars, nodeVars>>

\* lines 193-201: declare_publisher(health_topic).await ... ?
Run_DeclareHealth ==
    /\ run_pc = "declare_health"
    /\ \E ok \in BOOLEAN :
         IF ok
         THEN run_pc' = "spawn" /\ UNCHANGED run_result
         ELSE run_pc' = "drop_decoder" /\ run_result' = "Err"
    /\ UNCHANGED <<run_seen, watchVars, taskVars, capVars, decVars, consVars, histVars>>
    /\ UNCHANGED <<sampVars, statsVars, topoVars, healthVars, parseVars, nodeVars>>

\* lines 204-230: tasks.spawn(compressed_task(..))
Run_Spawn ==
    /\ run_pc = "spawn"
    /\ run_pc' = "subscribe"
    /\ task_pc' = "subscribe"
    /\ UNCHANGED <<run_seen, run_result, task_seen, task_end, cur, published>>
    /\ UNCHANGED <<watchVars, capVars, decVars, consVars, histVars>>
    /\ UNCHANGED <<sampVars, statsVars, topoVars, healthVars, parseVars, nodeVars>>

\* line 233: let mut shutdown_rx = shutdown_tx.subscribe()
Run_Subscribe ==
    /\ run_pc = "subscribe"
    /\ run_seen' = watch_subscribe(version)
    /\ rxCount' = rxCount + 1
    /\ run_pc' = "select"
    /\ UNCHANGED <<version, sigSent, run_result>>
    /\ UNCHANGED <<taskVars, capVars, decVars, consVars, histVars>>
    /\ UNCHANGED <<sampVars, statsVars, topoVars, healthVars, parseVars, nodeVars>>

\* a loop that also ends when the orchestrator task has finished
Run_Select_until_task_ends ==
    /\ run_pc = "select"
    /\ IF task_pc = "done"
       THEN run_pc' = "join" /\ UNCHANGED run_seen
       ELSE \E b \in select_biased(watch_changed(version, run_seen), TRUE) :
              IF b = "shutdown"
              THEN run_seen' = version /\ run_pc' = "join"
              ELSE run_pc' = "heartbeat" /\ UNCHANGED run_seen
    /\ UNCHANGED <<run_result, watchVars, taskVars, capVars, decVars, consVars, histVars>>
    /\ UNCHANGED <<sampVars, statsVars, topoVars, healthVars, parseVars, nodeVars>>

\* lines 236-251: the health/shutdown loop; the interval tick becomes ready
\* at times the model leaves open
Run_Select ==
    /\ run_pc = "select"
    /\ \E b \in select_biased(watch_changed(version, run_seen), TRUE) :
         IF b = "shutdown"
         THEN run_seen' = version /\ run_pc' = "join"
         ELSE run_pc' = "heartbeat" /\ UNCHANGED run_seen
    /\ UNCHANGED <<run_result, watchVars, taskVars, capVars, decVars, consVars, histVars>>
    /\ UNCHANGED <<sampVars, statsVars, topoVars, healthVars, parseVars, nodeVars>>

\* a heartbeat that is only sent while the orchestrator task runs
Run_Heartbeat_while_task_runs ==
    /\ run_pc = "heartbeat"
    /\ task_pc # "done"
    /\ run_pc' = "select"
    /\ hbSent' = TRUE
    /\ UNCHANGED <<run_seen, run_result, watchVars, taskVars, capVars, decVars, consVars, histVars>>
    /\ UNCHANGED <<sampVars, statsVars, topoVars, parseVars, nodeVars>>

\* line 246: health_publisher.put("ok").await, a failure is logged
Run_Heartbeat ==
    /\ run_pc = "heartbeat"
    /\ run_pc' = "select"
    /\ hbSent' = TRUE
    /\ UNCHANGED <<run_seen, run_result, watchVars, taskVars, capVars, decVars, consVars, histVars>>
    /\ UNCHANGED <<sampVars, statsVars, topoVars, parseVars, nodeVars>>

\* the cleanup with the two close calls exchanged
close_order_swapped == <<"close_decoder", "close_capture", "return">>

\* lines 256-265: the cleanup after the join, in the order written
close_order == <<"close_capture", "close_decoder", "return">>

after_close(pc) ==
    LET i == CHOOSE k \in 1..Len(close_order) : close_order[k] = pc
    IN close_order[i + 1]

\* run going on to the cleanup without waiting for the task to finish
Run_Join_nowait ==
    /\ run_pc = "join"
    /\ run_pc' = close_order[1]
    /\ UNCHANGED <<run_seen, run_result, watchVars, taskVars, capVars, decVars, consVars, histVars>>
    /\ UNCHANGED <<sampVars, statsVars, topoVars, healthVars, parseVars, nodeVars>>

\* line 254: while tasks.join_next().await.is_some() {}
Run_Join ==
    /\ run_pc = "join"
    /\ task_pc = "done"
    /\ run_pc' = close_order[1]
    /\ UNCHANGED <<run_seen, run_result, watchVars, taskVars, capVars, decVars, consVars, histVars>>
    /\ UNCHANGED <<sampVars, statsVars, topoVars, healthVars, parseVars, nodeVars>>

\* lines 257-259: capture.close(), an error is logged
Run_CloseCapture ==
    /\ run_pc = "close_capture"
    /\ H264StreamCapture_close
    /\ run_pc' = after_close("close_capture")
    /\ UNCHANGED <<run_seen, run_result, watchVars, taskVars, decVars, consVars>>
    /\ UNCHANGED <<enqLog, deqLog, pushLog, pubLog, decRecvLog, queuedAtFire, midFire>>
    /\ UNCHANGED <<sampVars, statsVars, topoVars, healthVars, parseVars, nodeVars>>

\* lines 260-262: decoder.close(), an error is logged
Run_CloseDecoder ==
    /\ run_pc = "close_decoder"
    /\ VideoH264Decoder_close
    /\ run_pc' = after_close("close_decoder")
    /\ UNCHANGED <<run_seen, run_result, watchVars, taskVars, capVars, consVars>>
    /\ UNCHANGED <<enqLog, deqLog, pushLog, pubLog, decRecvLog, queuedAtFire, midFire>>
    /\ UNCHANGED <<sampVars, statsVars, topoVars, healthVars, parseVars, nodeVars>>

\* lines 264-266: Ok(()); the locals are dropped in reverse order of
\* declaration: shutdown_rx first, then decoder, then capture
Run_Return ==
    /\ run_pc = "return"
    /\ run_result' = "Ok"
    /\ rxCount' = rxCount - 1
    /\ run_pc' = "drop_decoder"
    /\ UNCHANGED <<version, sigSent, run_seen>>
    /\ UNCHANGED <<taskVars, capVars, decVars, consVars, histVars>>
    /\ UNCHANGED <<sampVars, statsVars, topoVars, healthVars, parseVars, nodeVars>>

\* the last Arc<VideoH264Decoder> goes out of scope: Drop calls close()
Run_DropDecoder ==
    /\ run_pc = "drop_decoder"
    /\ VideoH264Decoder_drop
    /\ run_pc' = "drop_capture"
    /\ UNCHANGED <<run_seen, run_result, watchVars, taskVars, capVars, consVars>>
    /\ UNCHANGED <<enqLog, deqLog, pushLog, pubLog, decRecvLog, queuedAtFire, midFire>>
    /\ UNCHANGED <<sampVars, statsVars, topoVars, healthVars, parseVars, nodeVars>>

\* the last Arc<H264StreamCapture> goes out of scope: Drop calls close()
Run_DropCapture ==
    /\ run_pc = "drop_capture"
    /\ H264StreamCapture_drop
    /\ run_pc' = "done"
    /\ UNCHANGED <<run_seen, run_result, watchVars, taskVars, decVars, consVars>>
    /\ UNCHANGED <<enqLog, deqLog, pushLog, pubLog, decRecvLog, queuedAtFire, midFire>>
    /\ UNCHANGED <<sampVars, statsVars, topoVars, healthVars, parseVars, nodeVars>>


\* ===================================== RtspCameraNode::compressed_task
\* a message whose acquisition time is not taken from the frame
frame_to_compressed_image_untimed(frame, camera_name) ==
    [acq_time |-> 0,
     sequence |-> frame.seq,
     frame_id |-> camera_name,
     format |-> "h264",
     data |-> frame.bytes]

\* lines 16-34 (pub_time, the wall clock, is left out)
frame_to_compressed_image(frame, camera_name) ==
    [acq_time |-> frame.pts,
     sequence |-> frame.seq,
     frame_id |-> camera_name,
     format |-> "h264",
     data |-> frame.bytes]

\* line 68: let mut shutdown_rx = shutdown_tx.subscribe()
Task_Subscribe ==
    /\ task_pc = "subscribe"
    /\ task_seen' = watch_subscribe(version)
    /\ rxCount' = rxCount + 1
    /\ task_pc' = "create_pub"
    /\ UNCHANGED <<version, sigSent, task_end, cur, published>>
    /\ UNCHANGED <<runVars, capVars, decVars, consVars, histVars>>
    /\ UNCHANGED <<sampVars, statsVars, topoVars, healthVars, parseVars, nodeVars>>

\* lines 71-88: create_node(..).build()? and create_pub(..).build()?; on an
\* error the task returns it, the wrapper of run logs it (line 227);
\* otherwise the statistics start: last_log = Instant::now()
Task_CreatePub ==
    /\ task_pc = "create_pub"
    /\ \E ok \in BOOLEAN :
         IF ok
         THEN task_pc' = "select" /\ UNCHANGED <<task_end, rxCount>>
         ELSE task_pc' = "done" /\ task_end' = "error" /\ rxCount' = rxCount - 1
    /\ last_log' = now
    /\ last_published_count' = 0
    /\ sinceAt' = now /\ okSince' = 0
    /\ UNCHANGED <<now, bodies, fpsLog, evenRun, lastOkAt>>
    /\ UNCHANGED <<version, sigSent, task_seen, cur, published>>
    /\ UNCHANGED <<runVars, capVars, decVars, consVars, histVars>>
    /\ UNCHANGED <<sampVars, topoVars, healthVars, parseVars, nodeVars>>

\* recv_async() is ready when a frame is queued or the channel is
\* disconnected (every Sender dropped)
recv_ready(queue, txAlive) == queue # <<>> \/ ~txAlive

\* lines 90-100 and 130: the select! of the loop
Task_Select ==
    /\ task_pc = "select"
    /\ \E b \in select_biased(watch_changed(version, task_seen), recv_ready(capQ, capTx)) :
         IF b = "shutdown"
         THEN /\ task_seen' = version
              /\ task_end' = "shutdown"
              /\ task_pc' = "exit"
              /\ UNCHANGED <<cur, capQ, deqLog>>
         ELSE IF capQ # <<>>
         THEN /\ cur' = Head(capQ)
              /\ capQ' = Tail(capQ)
              /\ deqLog' = Append(deqLog, Head(capQ))
              /\ task_pc' = "push"
              /\ UNCHANGED <<task_seen, task_end>>
         ELSE /\ task_end' = "closed"
              /\ task_pc' = "exit"
              /\ UNCHANGED <<task_seen, cur, capQ, deqLog>>
    /\ UNCHANGED <<published, capState, capCloses, capSeq, capSink, capArrived, sinkDropped>>
    /\ UNCHANGED <<watchVars, runVars, decVars, consVars>>
    /\ UNCHANGED <<closeLog, enqLog, pushLog, pubLog, decRecvLog, queuedAtFire, midFire>>
    /\ UNCHANGED <<sampVars, statsVars, topoVars, healthVars, parseVars, nodeVars>>

\* a loop that gives up on the frame, and on itself, when push fails
after_push_abort(r) == IF r = "Ok" THEN "publish" ELSE "exit"

\* lines 103-105: `if let Err(e) = decoder.push(..) { log::warn!(..) }`, the
\* body goes on to the publish whatever push returned
after_push(r) == "publish"

\* lines 103-105: decoder.push(..), an error is logged
Task_Push ==
    /\ task_pc = "push"
    /\ VideoH264Decoder_push(cur.bytes, cur.pts, cur.keyframe)
    /\ task_pc' = after_push(appsrc_push_buffer(decState, decEos))
    /\ UNCHANGED <<task_seen, task_end, cur, published>>
    /\ UNCHANGED <<watchVars, runVars, capVars, consVars>>
    /\ UNCHANGED <<closeLog, enqLog, deqLog, pubLog, decRecvLog, queuedAtFire, midFire>>
    /\ UNCHANGED <<sampVars, statsVars, topoVars, healthVars, parseVars, nodeVars>>

\* the log events of lines 110-112 for the result of async_publish: the
\* result is only tested with is_ok(), the error is dropped without a log
\* call (the push failure at line 104 and the heartbeat failure at line 247
\* are the failures this file logs)
publish_events(ok) == <<>>

\* a loop that submits the message again until the sink accepts it
after_publish_retry(ok) == IF ok THEN "select" ELSE "publish"

\* lines 110-112: `if compressed_pub.async_publish(&msg).await.is_ok()
\* { published += 1; }`: the message is consumed by the one call, the body
\* ends and the loop selects again whatever the sink answered
after_publish(ok) == "select"

\* Duration::as_secs: the whole seconds of a duration given in ticks
as_secs(d) == d \div TicksPerSec

\* statistics that never move the start of the period
throughput_stats_total(t, pub, ll, lpc) ==
    IF as_secs(t - ll) >= 1
    THEN [line |-> <<[at |-> t, frames |-> pub, elapsed |-> t - ll]>>,
          last_log |-> ll, last_published_count |-> lpc]
    ELSE [line |-> <<>>, last_log |-> ll, last_published_count |-> lpc]

\* lines 114-128, at time t with `published` = pub: once a second or more has
\* passed since last_log a line is logged with the frames published since
\* the last line and the time elapsed (fps = frames / elapsed), and the
\* period starts again
throughput_stats(t, pub, ll, lpc) ==
    IF as_secs(t - ll) >= 1
    THEN [line |-> <<[at |-> t, frames |-> pub - lpc, elapsed |-> t - ll]>>,
          last_log |-> t, last_published_count |-> pub]
    ELSE [line |-> <<>>, last_log |-> ll, last_published_count |-> lpc]

\* the spacing of 30 frames a second
FrameGap == TicksPerSec \div 30

\* lines 110-128, the end of a loop body at time t: `published` counts the
\* success, then the statistics. The history keeps what was really published
\* since the last line, and how long the run of successful publishes is that
\* started with the task and came FrameGap apart: it is -1 once the run is
\* broken, and complete, and counted no further, at 30.
PublishAndStats(ok, t) ==
    LET pub == IF ok THEN published + 1 ELSE published
        st == throughput_stats(t, pub, last_log, last_published_count)
        okNow == IF ok THEN okSince + 1 ELSE okSince
        evenNow == IF evenRun = -1 \/ evenRun >= 30 \/ ~ok THEN evenRun
                   ELSE IF evenRun = 0 /\ t <= FrameGap THEN 1
                   ELSE IF evenRun > 0 /\ t - lastOkAt = FrameGap THEN evenRun + 1
                   ELSE -1
    IN /\ published' = pub
       /\ bodies' = bodies + 1
       /\ last_log' = st.last_log
       /\ last_published_count' = st.last_published_count
       /\ fpsLog' = fpsLog \o [i \in 1..Len(st.line) |->
                                 [at |-> st.line[i].at,
                                  frames |-> st.line[i].frames,
                                  elapsed |-> st.line[i].elapsed,
                                  okSince |-> okNow,
                                  sinceAt |-> sinceAt,
                                  evenRun |-> evenNow]]
       /\ okSince' = IF st.line # <<>> THEN 0 ELSE okNow
       /\ sinceAt' = IF st.line # <<>> THEN t ELSE sinceAt
       /\ lastOkAt' = IF ok THEN t ELSE lastOkAt
       /\ evenRun' = evenNow

\* lines 108-128: the message is built and published; published counts the
\* successes; then the statistics. The clock does not advance in the runs of
\* the whole node: they are over within the first second.
Task_Publish ==
    /\ task_pc = "publish"
    /\ \E ok \in BOOLEAN :
         /\ pubLog' = Append(pubLog, [msg |-> frame_to_compressed_image(cur, config.name),
                                      ok |-> ok, events |-> publish_events(ok)])
         /\ PublishAndStats(ok, now)
         /\ task_pc' = after_publish(ok)
    /\ UNCHANGED <<now, task_seen, task_end, cur>>
    /\ UNCHANGED <<watchVars, runVars, capVars, decVars, consVars>>
    /\ UNCHANGED <<closeLog, enqLog, deqLog, pushLog, decRecvLog, queuedAtFire, midFire>>
    /\ UNCHANGED <<sampVars, topoVars, healthVars, parseVars, nodeVars>>

\* a task that stops the capture pipeline when it ends
Task_Exit_closing ==
    /\ task_pc = "exit"
    /\ task_pc' = "done"
    /\ rxCount' = rxCount - 1
    /\ H264StreamCapture_close
    /\ UNCHANGED <<version, sigSent, task_seen, task_end, cur, published>>
    /\ UNCHANGED <<runVars, decVars, consVars>>
    /\ UNCHANGED <<enqLog, deqLog, pushLog, pubLog, decRecvLog, queuedAtFire, midFire>>
    /\ UNCHANGED <<sampVars, statsVars, topoVars, healthVars, parseVars, nodeVars>>

\* lines 136-142: the task returns Ok; its Receiver and its clones of the
\* two Arcs are dropped, run still holds the sessions
Task_Exit ==
    /\ task_pc = "exit"
    /\ task_pc' = "done"
    /\ rxCount' = rxCount - 1
    /\ UNCHANGED <<version, sigSent, task_seen, task_end, cur, published>>
    /\ UNCHANGED <<runVars, capVars, decVars, consVars, histVars>>
    /\ UNCHANGED <<sampVars, statsVars, topoVars, healthVars, parseVars, nodeVars>>

\* ============================================================ the program
Init ==
    /\ version = 0 /\ rxCount = 0 /\ sigSent = 0
    /\ run_pc = "new_capture" /\ run_seen = 0 /\ run_result = "none"
    /\ task_pc = "unspawned" /\ task_seen = 0 /\ task_end = "none"
    /\ cur = NoFrame /\ published = 0
    /\ capState = "Absent" /\ capCloses = 0 /\ capSeq = U32Zero /\ capQ = <<>>
    /\ capSink = <<>> /\ capArrived = 0 /\ sinkDropped = 0
    /\ decState = "Absent" /\ decCloses = 0 /\ decEos = FALSE /\ decSrcQ = <<>>
    /\ decQ = <<>> /\ decSeq = U32Zero /\ decHalted = FALSE
    /\ capCons = "none" /\ decCons = "none" /\ calls = 0
    /\ closeLog = <<>> /\ enqLog = <<>> /\ deqLog = <<>> /\ pushLog = <<>>
    /\ pubLog = <<>> /\ decRecvLog = <<>> /\ queuedAtFire = {} /\ midFire = 0
    /\ SampIdle /\ StatsIdle /\ TopoIdle /\ hbSent = FALSE /\ ParseIdle /\ NodeIdle

RunStep ==
    \/ Run_NewCapture \/ Run_Start \/ Run_NewDecoder \/ Run_DeclareHealth
    \/ Run_Spawn \/ Run_Subscribe \/ Run_Select \/ Run_Heartbeat \/ Run_Join
    \/ Run_CloseCapture \/ Run_CloseDecoder \/ Run_Return
    \/ Run_DropDecoder \/ Run_DropCapture

TaskStep ==
    \/ Task_Subscribe \/ Task_CreatePub \/ Task_Select
    \/ Task_Push \/ Task_Publish \/ Task_Exit

Next ==
    \/ CtrlC
    \/ RunStep
    \/ TaskStep
    \/ Capture_new_sample
    \/ Decoder_new_sample

Spec == Init /\ [][Next]_vars

\* The tokio runtime keeps polling run and the spawned task, and the
\* GStreamer streaming threads keep running; nothing obliges the user to
\* press Ctrl+C or the camera to deliver a frame.
FairSpec == Spec /\ WF_vars(RunStep) /\ WF_vars(TaskStep) /\ WF_vars(Decoder_new_sample)


\* ============================================= the session API by itself
\* Both sessions right after construction, used by a client that issues
\* public operations in any order, with one consumer on each receiver
\* (`while let Ok(frame) = receiver.recv_async().await`, h264_decode.rs:289)
\* that holds a clone of the Receiver.
SessionInit ==
    /\ version = 0 /\ rxCount = 0 /\ sigSent = 0
    /\ run_pc = "none" /\ run_seen = 0 /\ run_result = "none"
    /\ task_pc = "unspawned" /\ task_seen = 0 /\ task_end = "none"
    /\ cur = NoFrame /\ published = 0
    /\ capState = "Null" /\ capCloses = 0 /\ capSeq = U32Zero /\ capQ = <<>>
    /\ capSink = <<>> /\ capArrived = 0 /\ sinkDropped = 0
    /\ decState = "Playing" /\ decCloses = 0 /\ decEos = FALSE /\ decSrcQ = <<>>
    /\ decQ = <<>> /\ decSeq = U32Zero /\ decHalted = FALSE
    /\ capCons = "waiting" /\ decCons = "waiting" /\ calls = 0
    /\ closeLog = <<>> /\ enqLog = <<>> /\ deqLog = <<>> /\ pushLog = <<>>
    /\ pubLog = <<>> /\ decRecvLog = <<>> /\ queuedAtFire = {} /\ midFire = 0
    /\ SampIdle /\ StatsIdle /\ TopoBuilt /\ hbSent = FALSE /\ ParseIdle /\ NodeIdle

ApiCall ==
    /\ calls < MaxCalls
    /\ calls' = calls + 1
    /\ UNCHANGED <<capCons, decCons, watchVars, runVars, taskVars>>

\* capture.start()
Api_CaptureStart ==
    /\ capState \in {"Null", "Playing"}
    /\ ApiCall
    /\ \E ok \in BOOLEAN : H264StreamCapture_start(ok)
    /\ UNCHANGED <<decVars, histVars>>
    /\ UNCHANGED <<sampVars, statsVars, topoVars, healthVars, parseVars, nodeVars>>

\* capture.close()
Api_CaptureClose ==
    /\ capState \in {"Null", "Playing"}
    /\ ApiCall
    /\ H264StreamCapture_close
    /\ UNCHANGED <<decVars, enqLog, deqLog, pushLog, pubLog, decRecvLog, queuedAtFire, midFire>>
    /\ UNCHANGED <<sampVars, statsVars, topoVars, healthVars, parseVars, nodeVars>>

\* the capture session goes out of scope
Api_CaptureDrop ==
    /\ capState \in {"Null", "Playing"}
    /\ ApiCall
    /\ H264StreamCapture_drop
    /\ UNCHANGED <<decVars, enqLog, deqLog, pushLog, pubLog, decRecvLog, queuedAtFire, midFire>>
    /\ UNCHANGED <<sampVars, statsVars, topoVars, healthVars, parseVars, nodeVars>>

\* decoder.push(bytes, pts, keyframe)
Api_DecoderPush ==
    /\ decState \in {"Null", "Playing"}
    /\ ApiCall
    /\ \E keyframe \in BOOLEAN :
         VideoH264Decoder_push(calls + 1, 10 * (calls + 1), keyframe)
    /\ UNCHANGED <<capVars, closeLog, enqLog, deqLog, pubLog, decRecvLog, queuedAtFire, midFire>>
    /\ UNCHANGED <<sampVars, statsVars, topoVars, healthVars, parseVars, nodeVars>>

\* decoder.close()
Api_DecoderClose ==
    /\ decState \in {"Null", "Playing"}
    /\ ApiCall
    /\ VideoH264Decoder_close
    /\ UNCHANGED <<capVars, enqLog, deqLog, pushLog, pubLog, decRecvLog, queuedAtFire, midFire>>
    /\ UNCHANGED <<sampVars, statsVars, topoVars, healthVars, parseVars, nodeVars>>

\* the decoder goes out of scope
Api_DecoderDrop ==
    /\ decState \in {"Null", "Playing"}
    /\ ApiCall
    /\ VideoH264Decoder_drop
    /\ UNCHANGED <<capVars, enqLog, deqLog, pushLog, pubLog, decRecvLog, queuedAtFire, midFire>>
    /\ UNCHANGED <<sampVars, statsVars, topoVars, healthVars, parseVars, nodeVars>>

\* capture.receiver().recv_async().await completes: with the oldest queued
\* frame, or with Err once the queue is empty and every Sender is dropped
Consumer_CaptureRecv ==
    /\ capCons = "waiting"
    /\ recv_ready(capQ, capTx)
    /\ IF capQ # <<>>
       THEN /\ deqLog' = Append(deqLog, Head(capQ))
            /\ capQ' = Tail(capQ)
            /\ UNCHANGED capCons
       ELSE /\ capCons' = "eos"
            /\ UNCHANGED <<deqLog, capQ>>
    /\ UNCHANGED <<capState, capCloses, capSeq, capSink, capArrived, sinkDropped>>
    /\ UNCHANGED <<decCons, calls, watchVars, runVars, taskVars, decVars>>
    /\ UNCHANGED <<closeLog, enqLog, pushLog, pubLog, decRecvLog, queuedAtFire, midFire>>
    /\ UNCHANGED <<sampVars, statsVars, topoVars, healthVars, parseVars, nodeVars>>

\* decoder.receiver().recv_async().await completes
Consumer_DecoderRecv ==
    /\ decCons = "waiting"
    /\ recv_ready(decQ, decTx)
    /\ IF decQ # <<>>
       THEN /\ decRecvLog' = Append(decRecvLog, Head(decQ))
            /\ decQ' = Tail(decQ)
            /\ UNCHANGED decCons
       ELSE /\ decCons' = "eos"
            /\ UNCHANGED <<decRecvLog, decQ>>
    /\ UNCHANGED <<decState, decCloses, decEos, decSrcQ, decSeq, decHalted>>
    /\ UNCHANGED <<capCons, calls, watchVars, runVars, taskVars, capVars>>
    /\ UNCHANGED <<closeLog, enqLog, deqLog, pushLog, pubLog, queuedAtFire, midFire>>
    /\ UNCHANGED <<sampVars, statsVars, topoVars, healthVars, parseVars, nodeVars>>

SessionNext ==
    \/ Api_CaptureStart \/ Api_CaptureClose \/ Api_CaptureDrop
    \/ Api_DecoderPush \/ Api_DecoderClose \/ Api_DecoderDrop
    \/ Capture_new_sample \/ Decoder_new_sample
    \/ Consumer_CaptureRecv \/ Consumer_DecoderRecv

SessionSpec == SessionInit /\ [][SessionNext]_vars

\* The consumers are tasks the runtime keeps polling, the decoder's
\* streaming thread keeps running; the client and the camera owe nothing.
FairSessionSpec ==
    /\ SessionSpec
    /\ WF_vars(Consumer_CaptureRecv)
    /\ WF_vars(Consumer_DecoderRecv)
    /\ WF_vars(Decoder_new_sample)

\* ================================================ a long-running camera
\* The node in its steady state after 2^32 - 2 frames have been captured,
\* consumed and decoded: run and the task wait in their select loops, both
\* counters are two short of wrapping. The histories start empty here.
WrapInit ==
    /\ version = 0 /\ rxCount = 2 /\ sigSent = 0
    /\ run_pc = "select" /\ run_seen = 0 /\ run_result = "none"
    /\ task_pc = "select" /\ task_seen = 0 /\ task_end = "none"
    /\ cur = NoFrame /\ published = 0
    /\ capState = "Playing" /\ capCloses = 0 /\ capQ = <<>>
    /\ capSeq = <<Limb - 1, Limb - 2>>
    /\ capSink = <<>> /\ capArrived = 0 /\ sinkDropped = 0
    /\ decState = "Playing" /\ decCloses = 0 /\ decEos = FALSE /\ decSrcQ = <<>>
    /\ decQ = <<>> /\ decSeq = <<Limb - 1, Limb - 2>> /\ decHalted = FALSE
    /\ capCons = "none" /\ decCons = "none" /\ calls = 0
    /\ closeLog = <<>> /\ enqLog = <<>> /\ deqLog = <<>> /\ pushLog = <<>>
    /\ pubLog = <<>> /\ decRecvLog = <<>> /\ queuedAtFire = {} /\ midFire = 0
    /\ SampIdle /\ StatsIdle /\ TopoBuilt /\ hbSent = TRUE /\ ParseIdle /\ NodeIdle

WrapNext ==
    \/ CtrlC
    \/ Run_Select \/ Run_Heartbeat \/ Run_Join
    \/ Run_CloseCapture \/ Run_CloseDecoder \/ Run_Return
    \/ Run_DropDecoder \/ Run_DropCapture
    \/ Task_Select \/ Task_Push \/ Task_Publish \/ Task_Exit
    \/ Capture_new_sample
    \/ Decoder_new_sample

WrapSpec == WrapInit /\ [][WrapNext]_vars

\* ============================== compressed_task with a decoder owner
\* compressed_task takes the decoder as an Arc: whoever holds another clone
\* may close the decoder while the task is in its loop. Here the task has
\* subscribed and declared its publisher, both sessions are Playing, and the
\* holder of the other clone calls decoder.close() whenever it likes.
OrchestratorInit ==
    /\ version = 0 /\ rxCount = 1 /\ sigSent = 0
    /\ run_pc = "none" /\ run_seen = 0 /\ run_result = "none"
    /\ task_pc = "select" /\ task_seen = 0 /\ task_end = "none"
    /\ cur = NoFrame /\ published = 0
    /\ capState = "Playing" /\ capCloses = 0 /\ capSeq = U32Zero /\ capQ = <<>>
    /\ capSink = <<>> /\ capArrived = 0 /\ sinkDropped = 0
    /\ decState = "Playing" /\ decCloses = 0 /\ decEos = FALSE /\ decSrcQ = <<>>
    /\ decQ = <<>> /\ decSeq = U32Zero /\ decHalted = FALSE
    /\ capCons = "none" /\ decCons = "none" /\ calls = 0
    /\ closeLog = <<>> /\ enqLog = <<>> /\ deqLog = <<>> /\ pushLog = <<>>
    /\ pubLog = <<>> /\ decRecvLog = <<>> /\ queuedAtFire = {} /\ midFire = 0
    /\ SampIdle /\ StatsIdle /\ TopoBuilt /\ hbSent = FALSE /\ ParseIdle /\ NodeIdle

OrchestratorNext ==
    \/ CtrlC
    \/ Task_Select \/ Task_Push \/ Task_Publish \/ Task_Exit
    \/ Capture_new_sample
    \/ Decoder_new_sample
    \/ Api_DecoderClose

OrchestratorSpec == OrchestratorInit /\ [][OrchestratorNext]_vars

\* ===================================== the statistics of compressed_task
\* The loop of compressed_task over a long run: the task has just started
\* its statistics (lines 86-88), time passes, and each loop body ends with
\* its publish and the statistics of lines 110-128. The frames themselves
\* are left out here: only their number and the times of their publishes
\* matter to the throughput line.
MaxClock == 3 * TicksPerSec

StatsInit == OrchestratorInit

\* the time from the end of one loop body to the end of the next: a frame
\* interval at 30 frames a second, a second, or two; the first body may
\* also end one tick after the start of the task
Gaps(n) == {FrameGap, TicksPerSec, 2 * TicksPerSec} \cup (IF n = 0 THEN {1} ELSE {})

\* a loop body ends dt after the one before: the publish has succeeded or
\* failed, the statistics run
Stats_Body ==
    /\ bodies < MaxBodies
    /\ \E dt \in Gaps(bodies), ok \in BOOLEAN :
         /\ now + dt <= MaxClock
         /\ ok \/ bodies - published < MaxFailures
         /\ now' = now + dt
         /\ PublishAndStats(ok, now + dt)
    /\ UNCHANGED <<task_pc, task_seen, task_end, cur>>
    /\ UNCHANGED <<watchVars, runVars, capVars, decVars, consVars, histVars>>
    /\ UNCHANGED <<sampVars, topoVars, healthVars, parseVars, nodeVars>>

StatsNext == Stats_Body

StatsSpec == StatsInit /\ [][StatsNext]_vars

\* ======================================== the decoder of every config
\* run at the construction of the decoder (line 167), the capture session
\* started, for every decoder backend a config file may name and sizes
\* from the range Config::validate accepts (1..7680 x 1..4320).
Widths == {1, 320, 640, 1920, 7680}
Heights == {1, 240, 480, 4320}
Configs ==
    { [name |-> "entrance", decoder |-> d, width |-> w, height |-> h] :
        d \in {"cpu", "nvidia", "jetson"}, w \in Widths, h \in Heights }

TopologyInit ==
    /\ version = 0 /\ rxCount = 0 /\ sigSent = 0
    /\ run_pc = "new_decoder" /\ run_seen = 0 /\ run_result = "none"
    /\ task_pc = "unspawned" /\ task_seen = 0 /\ task_end = "none"
    /\ cur = NoFrame /\ published = 0
    /\ capState = "Playing" /\ capCloses = 0 /\ capSeq = U32Zero /\ capQ = <<>>
    /\ capSink = <<>> /\ capArrived = 0 /\ sinkDropped = 0
    /\ decState = "Absent" /\ decCloses = 0 /\ decEos = FALSE /\ decSrcQ = <<>>
    /\ decQ = <<>> /\ decSeq = U32Zero /\ decHalted = FALSE
    /\ capCons = "none" /\ decCons = "none" /\ calls = 0
    /\ closeLog = <<>> /\ enqLog = <<>> /\ deqLog = <<>> /\ pushLog = <<>>
    /\ pubLog = <<>> /\ decRecvLog = <<>> /\ queuedAtFire = {} /\ midFire = 0
    /\ SampIdle /\ StatsIdle /\ hbSent = FALSE /\ ParseIdle /\ NodeIdle
    /\ config \in Configs /\ decPipeline = <<>>

TopologyNext == Run_NewDecoder

TopologySpec == TopologyInit /\ [][TopologyNext]_vars

\* ======================================= the camera's configuration file
\* Strings are sequences of characters. The two character classes of
\* validate (config.rs:74 and :83):
Lower == {"a","b","c","d","e","f","g","h","i","j","k","l","m",
          "n","o","p","q","r","s","t","u","v","w","x","y","z"}
Upper == {"A","B","C","D","E","F","G","H","I","J","K","L","M",
          "N","O","P","Q","R","S","T","U","V","W","X","Y","Z"}
Digit == {"0","1","2","3","4","5","6","7","8","9"}
NameChars == Lower \cup Upper \cup Digit \cup {"_", "-", "."}
TopicChars == Lower \cup Upper \cup Digit \cup {"/", "_", "-", "."}

\* Regex::is_match for a pattern ^[class]+$ : one or more characters, all
\* of them in the class
is_match(class, s) == Len(s) >= 1 /\ \A i \in 1..Len(s) : s[i] \in class

\* config.rs:50-52
default_latency == 200

\* validate with the upper bound of the width off by one
Config_validate_narrow(c) ==
    IF ~is_match(NameChars, c.name) THEN "ValidationError"
    ELSE IF ~is_match(TopicChars, c.publish_topic) THEN "ValidationError"
    ELSE IF Len(c.url) = 0 THEN "ValidationError"
    ELSE IF c.latency = 0 \/ c.latency > 10000 THEN "ValidationError"
    ELSE IF c.width = 0 \/ c.width >= 7680 THEN "ValidationError"
    ELSE IF c.height = 0 \/ c.height > 4320 THEN "ValidationError"
    ELSE "Ok"
\* Config::validate (config.rs:71-120): the first failing test gives the error
Config_validate(c) ==
    IF ~is_match(NameChars, c.name) THEN "ValidationError"
    ELSE IF ~is_match(TopicChars, c.publish_topic) THEN "ValidationError"
    ELSE IF Len(c.url) = 0 THEN "ValidationError"
    ELSE IF c.latency = 0 \/ c.latency > 10000 THEN "ValidationError"
    ELSE IF c.width = 0 \/ c.width > 7680 THEN "ValidationError"
    ELSE IF c.height = 0 \/ c.height > 4320 THEN "ValidationError"
    ELSE "Ok"

\* serde_yaml::from_str into Config (config.rs:28-48): latency, width and
\* height are u32, so a negative number does not deserialize; a document
\* without a latency gets default_latency. A document gives latency as
\* <<>> (absent) or <<n>>.
from_str(yaml) ==
    IF \/ yaml.width < 0 \/ yaml.height < 0
       \/ (yaml.latency # <<>> /\ yaml.latency[1] < 0)
    THEN [kind |-> "Err", error |-> "ParseError"]
    ELSE [kind |-> "Ok",
          config |-> [name |-> yaml.name, publish_topic |-> yaml.publish_topic,
                      url |-> yaml.url,
                      latency |-> IF yaml.latency = <<>> THEN default_latency
                                  ELSE yaml.latency[1],
                      decoder |-> yaml.decoder,
                      width |-> yaml.width, height |-> yaml.height]]

\* Config::parse (config.rs:63-68)
Config_parse(yaml) ==
    LET d == from_str(yaml) IN
    IF d.kind = "Err" THEN d
    ELSE IF Config_validate(d.config) # "Ok"
         THEN [kind |-> "Err", error |-> Config_validate(d.config)]
         ELSE [kind |-> "Ok", config |-> d.config]

\* the documents handed to parse: names and topics up to MaxStrLen
\* characters over a letter, a separator both classes allow, the slash only
\* topics allow and a space neither allows; an empty or a non-empty url;
\* numbers on both sides of every bound
MaxStrLen == 2
Alphabet == {"a", "_", "/", " "}
Strings == UNION { [1..n -> Alphabet] : n \in 0..MaxStrLen }
Urls == {<<>>, <<"r", "t", "s", "p", ":", "/", "/", "h">>}
Latencies == {<<>>, <<0>>, <<1>>, <<10000>>, <<10001>>}
RawWidths == {-1, 0, 1, 7680, 7681}
RawHeights == {0, 1, 4320, 4321}
Yamls ==
    [name : Strings, publish_topic : Strings, url : Urls, latency : Latencies,
     decoder : {"cpu"}, width : RawWidths, height : RawHeights]

\* the program before run, a document about to be parsed
ConfigInit ==
    /\ version = 0 /\ rxCount = 0 /\ sigSent = 0
    /\ run_pc = "new_capture" /\ run_seen = 0 /\ run_result = "none"
    /\ task_pc = "unspawned" /\ task_seen = 0 /\ task_end = "none"
    /\ cur = NoFrame /\ published = 0
    /\ capState = "Absent" /\ capCloses = 0 /\ capSeq = U32Zero /\ capQ = <<>>
    /\ capSink = <<>> /\ capArrived = 0 /\ sinkDropped = 0
    /\ decState = "Absent" /\ decCloses = 0 /\ decEos = FALSE /\ decSrcQ = <<>>
    /\ decQ = <<>> /\ decSeq = U32Zero /\ decHalted = FALSE
    /\ capCons = "none" /\ decCons = "none" /\ calls = 0
    /\ closeLog = <<>> /\ enqLog = <<>> /\ deqLog = <<>> /\ pushLog = <<>>
    /\ pubLog = <<>> /\ decRecvLog = <<>> /\ queuedAtFire = {} /\ midFire = 0
    /\ SampIdle /\ StatsIdle /\ TopoIdle /\ hbSent = FALSE
    /\ parseInput \in Yamls /\ parseResult = NoResult /\ NodeIdle

\* Config::parse(yaml)
Call_Config_parse ==
    /\ parseResult = NoResult
    /\ parseResult' = Config_parse(parseInput)
    /\ UNCHANGED <<parseInput, watchVars, runVars, taskVars, capVars, decVars,
                   consVars, histVars, sampVars, statsVars, topoVars, healthVars,
                   nodeVars>>

ConfigNext == Call_Config_parse

ConfigSpec == ConfigInit /\ [][ConfigNext]_vars

\* ============================================= openmeteo's fetch settings
\* validate without the test of daily_interval_secs
FetchConfig_validate_two_intervals(f) ==
    IF f.current_interval_secs = 0 \/ f.current_interval_secs > 86400
    THEN [kind |-> "Err", error |-> "ValidationError"]
    ELSE IF f.hourly_interval_secs = 0 \/ f.hourly_interval_secs > 86400
    THEN [kind |-> "Err", error |-> "ValidationError"]
    ELSE IF f.hourly_forecast_hours = 0 \/ f.hourly_forecast_hours > 384
    THEN [kind |-> "Err", error |-> "ValidationError"]
    ELSE IF f.daily_forecast_days = 0 \/ f.daily_forecast_days > 16
    THEN [kind |-> "Err", error |-> "ValidationError"]
    ELSE [kind |-> "Ok"]
\* FetchConfig::validate (openmeteo/src/config.rs:94-129)
FetchConfig_validate(f) ==
    IF f.current_interval_secs = 0 \/ f.current_interval_secs > 86400
    THEN [kind |-> "Err", error |-> "ValidationError"]
    ELSE IF f.hourly_interval_secs = 0 \/ f.hourly_interval_secs > 86400
    THEN [kind |-> "Err", error |-> "ValidationError"]
    ELSE IF f.daily_interval_secs = 0 \/ f.daily_interval_secs > 86400
    THEN [kind |-> "Err", error |-> "ValidationError"]
    ELSE IF f.hourly_forecast_hours = 0 \/ f.hourly_forecast_hours > 384
    THEN [kind |-> "Err", error |-> "ValidationError"]
    ELSE IF f.daily_forecast_days = 0 \/ f.daily_forecast_days > 16
    THEN [kind |-> "Err", error |-> "ValidationError"]
    ELSE [kind |-> "Ok"]

\* FetchConfig::default (openmeteo/src/config.rs:72-82)
FetchConfig_default ==
    [current_interval_secs |-> 30, hourly_interval_secs |-> 1800,
     daily_interval_secs |-> 10800, hourly_forecast_hours |-> 48,
     daily_forecast_days |-> 7]

\* the settings handed to validate: every field is unsigned; the default
\* and the values on both sides of each bound
IntervalSecs(default) == {0, 1, default, 86400, 86401}
ForecastHours == {0, 1, 48, 384, 385}
ForecastDays == {0, 1, 7, 16, 17}
FetchConfigs ==
    [current_interval_secs : IntervalSecs(30),
     hourly_interval_secs : IntervalSecs(1800),
     daily_interval_secs : IntervalSecs(10800),
     hourly_forecast_hours : ForecastHours, daily_forecast_days : ForecastDays]

\* the settings of a weather node about to be validated; the camera is
\* not running
FetchInit ==
    /\ version = 0 /\ rxCount = 0 /\ sigSent = 0
    /\ run_pc = "new_capture" /\ run_seen = 0 /\ run_result = "none"
    /\ task_pc = "unspawned" /\ task_seen = 0 /\ task_end = "none"
    /\ cur = NoFrame /\ published = 0
    /\ capState = "Absent" /\ capCloses = 0 /\ capSeq = U32Zero /\ capQ = <<>>
    /\ capSink = <<>> /\ capArrived = 0 /\ sinkDropped = 0
    /\ decState = "Absent" /\ decCloses = 0 /\ decEos = FALSE /\ decSrcQ = <<>>
    /\ decQ = <<>> /\ decSeq = U32Zero /\ decHalted = FALSE
    /\ capCons = "none" /\ decCons = "none" /\ calls = 0
    /\ closeLog = <<>> /\ enqLog = <<>> /\ deqLog = <<>> /\ pushLog = <<>>
    /\ pubLog = <<>> /\ decRecvLog = <<>> /\ queuedAtFire = {} /\ midFire = 0
    /\ SampIdle /\ StatsIdle /\ TopoIdle /\ hbSent = FALSE
    /\ parseInput \in FetchConfigs /\ parseResult = NoResult /\ NodeIdle

\* fetch.validate()
Call_FetchConfig_validate ==
    /\ parseResult = NoResult
    /\ parseResult' = FetchConfig_validate(parseInput)
    /\ UNCHANGED <<parseInput, watchVars, runVars, taskVars, capVars, decVars,
                   consVars, histVars, sampVars, statsVars, topoVars, healthVars,
                   nodeVars>>

FetchNext == Call_FetchConfig_validate

FetchSpec == FetchInit /\ [][FetchNext]_vars

\* ====================================================== the weather node
\* OpenMeteoNode::run (openmeteo_node.rs:290-539) from the creation of its
\* intervals on. The clock counts seconds. A fetch and a put take no time
\* on this scale: the clock advances only when no arm of the select is ready.

\* the camera node before its run
CameraIdle ==
    /\ version = 0 /\ rxCount = 0 /\ sigSent = 0
    /\ run_pc = "new_capture" /\ run_seen = 0 /\ run_result = "none"
    /\ task_pc = "unspawned" /\ task_seen = 0 /\ task_end = "none"
    /\ cur = NoFrame /\ published = 0
    /\ capState = "Absent" /\ capCloses = 0 /\ capSeq = U32Zero /\ capQ = <<>>
    /\ capSink = <<>> /\ capArrived = 0 /\ sinkDropped = 0
    /\ decState = "Absent" /\ decCloses = 0 /\ decEos = FALSE /\ decSrcQ = <<>>
    /\ decQ = <<>> /\ decSeq = U32Zero /\ decHalted = FALSE
    /\ capCons = "none" /\ decCons = "none" /\ calls = 0
    /\ closeLog = <<>> /\ enqLog = <<>> /\ deqLog = <<>> /\ pushLog = <<>>
    /\ pubLog = <<>> /\ decRecvLog = <<>> /\ queuedAtFire = {} /\ midFire = 0
    /\ SampIdle /\ StatsIdle /\ TopoIdle /\ hbSent = FALSE

\* the fetch settings of the runs below: short periods, all within the
\* bounds of FetchConfig::validate
fetch_config ==
    [current_interval_secs |-> 2, hourly_interval_secs |-> 3,
     daily_interval_secs |-> 4, hourly_forecast_hours |-> 48,
     daily_forecast_days |-> 7]

\* the period of the health interval (line 424)
HealthPeriod == 5

\* the locations: the node's own and the ones a client publishes
Locations == {1, 2}

\* how long the clock runs, and how many location updates arrive
MaxWxClock == 5
MaxUpdates == 2
\* how many fetches and puts fail in a run
MaxWxFailures == 1

\* tokio::time::interval(period): the first tick completes at once
interval(t) == t

\* Interval::tick completing at deadline d: the next deadline is one period
\* later (MissedTickBehavior::Burst)
tick_next(d, period) == d + period

\* an interval reset so that its next tick completes at once
interval_reset_immediately(t, period) == t

\* Interval::reset(): the next tick completes one period after the current
\* time
interval_reset(t, period) == t + period

\* a sequence that advances with every put
seq_after_put_always(seq, ok) == wrapping_add(seq)

\* lines 481-484, 502-505, 523-526: the counter advances only in the
\* is_ok() branch of the put
seq_after_put(seq, ok) == IF ok THEN wrapping_add(seq) ELSE seq

\* the arms of the biased select, in the order written (lines 427-533):
\* an arm is taken when it is ready and no arm before it is
ShutdownReady == wx_shutdown
HealthReady == wx_health_interval <= wx_now
LocationReady == location_rx # <<>>
CurrentReady == current_interval <= wx_now
HourlyReady == hourly_interval <= wx_now
DailyReady == daily_interval <= wx_now

\* Ctrl+C: the watch channel changes
Wx_CtrlC ==
    /\ wx_pc = "loop" /\ ~wx_shutdown
    /\ wx_shutdown' = TRUE
    /\ UNCHANGED <<wx_pc, wx_now, current_interval, hourly_interval, daily_interval,
                   wx_health_interval, location, location_rx, current_seq,
                   hourly_seq, daily_seq, fetchLog, putLog, lastUpdate, wxBase>>
    /\ UNCHANGED <<camVars, parseVars, inferVars, recVars>>

\* the subscriber task (lines 352-392) decodes a location sample and sends
\* it into the channel of capacity 10
Wx_LocationArrives ==
    /\ wx_pc = "loop" /\ ~wx_shutdown
    /\ Len(location_rx) < 10
    /\ lastUpdate.count + Len(location_rx) < MaxUpdates
    /\ \E l \in Locations : location_rx' = Append(location_rx, l)
    /\ UNCHANGED <<wx_pc, wx_now, wx_shutdown, current_interval, hourly_interval,
                   daily_interval, wx_health_interval, location, current_seq,
                   hourly_seq, daily_seq, fetchLog, putLog, lastUpdate, wxBase>>
    /\ UNCHANGED <<camVars, parseVars, inferVars, recVars>>

\* time passes while the select waits
Wx_Tick ==
    /\ wx_pc = "loop"
    /\ wx_now < MaxWxClock
    /\ ~(ShutdownReady \/ HealthReady \/ LocationReady \/ CurrentReady
          \/ HourlyReady \/ DailyReady)
    /\ wx_now' = wx_now + 1
    /\ UNCHANGED <<wx_pc, wx_shutdown, current_interval, hourly_interval,
                   daily_interval, wx_health_interval, location, location_rx,
                   current_seq, hourly_seq, daily_seq, fetchLog, putLog,
                   lastUpdate, wxBase>>
    /\ UNCHANGED <<camVars, parseVars, inferVars, recVars>>

\* lines 430-433: the shutdown arm breaks the loop, run returns Ok
Wx_Shutdown ==
    /\ wx_pc = "loop" /\ ShutdownReady
    /\ wx_pc' = "done"
    /\ UNCHANGED <<wx_now, wx_shutdown, current_interval, hourly_interval,
                   daily_interval, wx_health_interval, location, location_rx,
                   current_seq, hourly_seq, daily_seq, fetchLog, putLog,
                   lastUpdate, wxBase>>
    /\ UNCHANGED <<camVars, parseVars, inferVars, recVars>>

\* lines 436-440: the heartbeat
Wx_Health ==
    /\ wx_pc = "loop" /\ ~ShutdownReady /\ HealthReady
    /\ wx_health_interval' = tick_next(wx_health_interval, HealthPeriod)
    /\ UNCHANGED <<wx_pc, wx_now, wx_shutdown, current_interval, hourly_interval,
                   daily_interval, location, location_rx, current_seq,
                   hourly_seq, daily_seq, fetchLog, putLog, lastUpdate, wxBase>>
    /\ UNCHANGED <<camVars, parseVars, inferVars, recVars>>

\* lines 443-470: a location update replaces the location and resets the
\* three fetch intervals
Wx_LocationUpdate ==
    /\ wx_pc = "loop" /\ ~ShutdownReady /\ ~HealthReady /\ LocationReady
    /\ location' = Head(location_rx)
    /\ location_rx' = Tail(location_rx)
    /\ current_interval' = interval_reset(wx_now, fetch_config.current_interval_secs)
    /\ hourly_interval' = interval_reset(wx_now, fetch_config.hourly_interval_secs)
    /\ daily_interval' = interval_reset(wx_now, fetch_config.daily_interval_secs)
    /\ lastUpdate' = [at |-> wx_now, fetches |-> Len(fetchLog),
                      count |-> lastUpdate.count + 1]
    /\ UNCHANGED <<wx_pc, wx_now, wx_shutdown, wx_health_interval, current_seq,
                   hourly_seq, daily_seq, fetchLog, putLog, wxBase>>
    /\ UNCHANGED <<camVars, parseVars, inferVars, recVars>>

\* the body of a fetch arm for one stream: the fetch for the current
\* location; when it succeeded the message with the stream's sequence is
\* put; the histories record both
WxFailures ==
    Cardinality({ i \in 1..Len(fetchLog) : ~fetchLog[i].ok })
    + Cardinality({ i \in 1..Len(putLog) : ~putLog[i].ok })

FetchAndPut(stream, seq, fetched, put) ==
    /\ (fetched /\ put) \/ WxFailures < MaxWxFailures
    /\ ~fetched => put
    /\ fetchLog' = Append(fetchLog, [stream |-> stream, at |-> wx_now,
                                      location |-> location, ok |-> fetched])
    /\ putLog' = IF fetched
                 THEN Append(putLog, [stream |-> stream, sequence |-> seq,
                                      location |-> location, ok |-> put])
                 ELSE putLog

\* lines 472-490
Wx_Current ==
    /\ wx_pc = "loop" /\ ~ShutdownReady /\ ~HealthReady /\ ~LocationReady
    /\ CurrentReady
    /\ current_interval' = tick_next(current_interval, fetch_config.current_interval_secs)
    /\ \E fetched, put \in BOOLEAN :
         /\ FetchAndPut("current", current_seq, fetched, put)
         /\ current_seq' = IF fetched THEN seq_after_put(current_seq, put)
                           ELSE current_seq
    /\ UNCHANGED <<wx_pc, wx_now, wx_shutdown, hourly_interval, daily_interval,
                   wx_health_interval, location, location_rx, hourly_seq,
                   daily_seq, lastUpdate, wxBase>>
    /\ UNCHANGED <<camVars, parseVars, inferVars, recVars>>

\* lines 492-511
Wx_Hourly ==
    /\ wx_pc = "loop" /\ ~ShutdownReady /\ ~HealthReady /\ ~LocationReady
    /\ ~CurrentReady /\ HourlyReady
    /\ hourly_interval' = tick_next(hourly_interval, fetch_config.hourly_interval_secs)
    /\ \E fetched, put \in BOOLEAN :
         /\ FetchAndPut("hourly", hourly_seq, fetched, put)
         /\ hourly_seq' = IF fetched THEN seq_after_put(hourly_seq, put)
                          ELSE hourly_seq
    /\ UNCHANGED <<wx_pc, wx_now, wx_shutdown, current_interval, daily_interval,
                   wx_health_interval, location, location_rx, current_seq,
                   daily_seq, lastUpdate, wxBase>>
    /\ UNCHANGED <<camVars, parseVars, inferVars, recVars>>

\* lines 513-532
Wx_Daily ==
    /\ wx_pc = "loop" /\ ~ShutdownReady /\ ~HealthReady /\ ~LocationReady
    /\ ~CurrentReady /\ ~HourlyReady /\ DailyReady
    /\ daily_interval' = tick_next(daily_interval, fetch_config.daily_interval_secs)
    /\ \E fetched, put \in BOOLEAN :
         /\ FetchAndPut("daily", daily_seq, fetched, put)
         /\ daily_seq' = IF fetched THEN seq_after_put(daily_seq, put)
                         ELSE daily_seq
    /\ UNCHANGED <<wx_pc, wx_now, wx_shutdown, current_interval, hourly_interval,
                   wx_health_interval, location, location_rx, current_seq,
                   hourly_seq, lastUpdate, wxBase>>
    /\ UNCHANGED <<camVars, parseVars, inferVars, recVars>>

\* run at the creation of its intervals (lines 414-424), a fresh node or
\* one whose three streams have each published 2^32 - 1 messages
WeatherInit ==
    /\ CameraIdle /\ ParseIdle /\ InferIdle /\ RecIdle
    /\ wx_pc = "loop" /\ wx_now = 0 /\ wx_shutdown = FALSE
    /\ current_interval = interval(0) /\ hourly_interval = interval(0)
    /\ daily_interval = interval(0) /\ wx_health_interval = interval(0)
    /\ location = 1 /\ location_rx = <<>>
    /\ wxBase \in {U32Zero, U32Max}
    /\ current_seq = wxBase /\ hourly_seq = wxBase /\ daily_seq = wxBase
    /\ fetchLog = <<>> /\ putLog = <<>> /\ lastUpdate = NoUpdate

WeatherNext ==
    \/ Wx_CtrlC \/ Wx_LocationArrives \/ Wx_Tick
    \/ Wx_Shutdown \/ Wx_Health \/ Wx_LocationUpdate
    \/ Wx_Current \/ Wx_Hourly \/ Wx_Daily

WeatherSpec == WeatherInit /\ [][WeatherNext]_vars

\* ==================================================== the inference node
\* main of inference_node.rs from its receive loop on (lines 150-242).

\* how many samples reach the subscriber
MaxSamples == 4

\* the i-th sample published on the topic; its payload decodes as a
\* RawImage or does not
InferSamples(i) == { [id |-> i, decodable |-> d] : d \in BOOLEAN }

\* lines 180-184: `while let Ok(Some(newer)) = subscriber.try_recv()
\* { sample = newer; batch_dropped += 1; }`
RECURSIVE drain(_, _, _)
drain(sample, queue, batch_dropped) ==
    IF queue = <<>>
    THEN [sample |-> sample, batch_dropped |-> batch_dropped]
    ELSE drain(Head(queue), Tail(queue), batch_dropped + 1)

\* a frame counted only when its payload decoded
count_frame_decoded_only(count, decoded) == IF decoded THEN count + 1 ELSE count

\* line 187: frame_count += 1, before the payload is decoded
count_frame(count, decoded) == count + 1

\* the publisher of the raw images
Inf_SampleArrives ==
    /\ inf_pc = "loop"
    /\ arrived < MaxSamples
    /\ arrived' = arrived + 1
    /\ \E s \in InferSamples(arrived + 1) : subscriber' = Append(subscriber, s)
    /\ UNCHANGED <<inf_pc, inf_shutdown, frame_count, total_dropped, inf_hb, recvLog>>
    /\ UNCHANGED <<camVars, parseVars, weatherVars, recVars>>

\* the Ctrl+C handler (lines 117-121)
Inf_CtrlC ==
    /\ inf_pc = "loop" /\ ~inf_shutdown
    /\ inf_shutdown' = TRUE
    /\ UNCHANGED <<inf_pc, subscriber, frame_count, total_dropped, inf_hb,
                   arrived, recvLog>>
    /\ UNCHANGED <<camVars, parseVars, weatherVars, recVars>>

\* lines 162-165: the shutdown arm, first in the biased select
Inf_Shutdown ==
    /\ inf_pc = "loop" /\ inf_shutdown
    /\ inf_pc' = "done"
    /\ UNCHANGED <<inf_shutdown, subscriber, frame_count, total_dropped, inf_hb,
                   arrived, recvLog>>
    /\ UNCHANGED <<camVars, parseVars, weatherVars, recVars>>

\* lines 167-171: the health tick, which may be due at any time
Inf_Health ==
    /\ inf_pc = "loop" /\ ~inf_shutdown
    /\ inf_hb' = TRUE
    /\ UNCHANGED <<inf_pc, inf_shutdown, subscriber, frame_count, total_dropped,
                   arrived, recvLog>>
    /\ UNCHANGED <<camVars, parseVars, weatherVars, recVars>>

\* lines 173-232: recv_async yields the oldest queued sample, the queue is
\* drained, the counters are updated; the payload of the sample kept is
\* decoded, and a payload that does not decode ends the iteration
Inf_Recv ==
    /\ inf_pc = "loop" /\ ~inf_shutdown
    /\ subscriber # <<>>
    /\ LET d == drain(Head(subscriber), Tail(subscriber), 0)
       IN /\ total_dropped' = total_dropped + d.batch_dropped
          /\ frame_count' = count_frame(frame_count, d.sample.decodable)
          /\ recvLog' = Append(recvLog, [batch |-> subscriber, sample |-> d.sample,
                                        decoded |-> d.sample.decodable])
    /\ subscriber' = <<>>
    /\ UNCHANGED <<inf_pc, inf_shutdown, inf_hb, arrived>>
    /\ UNCHANGED <<camVars, parseVars, weatherVars, recVars>>

\* the receive loop is entered (lines 150-158)
InferInit ==
    /\ CameraIdle /\ ParseIdle /\ WeatherIdle /\ RecIdle
    /\ inf_pc = "loop" /\ inf_shutdown = FALSE /\ subscriber = <<>>
    /\ frame_count = 0 /\ total_dropped = 0 /\ inf_hb = FALSE
    /\ arrived = 0 /\ recvLog = <<>>

InferNext ==
    \/ Inf_SampleArrives \/ Inf_CtrlC \/ Inf_Shutdown \/ Inf_Health \/ Inf_Recv

InferSpec == InferInit /\ [][InferNext]_vars

\* ===================================================== the recorder node
\* RecorderNode::run (recorder_node.rs:30-120) and the Ctrl+C handler of
\* mcap_recorder.rs:59-70.

\* how many samples are published on the recorded topics
MaxRecMsgs == 2

\* mcap_recorder.rs:59-70: the handler is installed before run is called,
\* and sends on every Ctrl+C; the receiver of the health task (line 121)
\* is alive
Rec_CtrlC ==
    /\ rec_pc \notin {"done_ok", "done_err"}
    /\ rec_version < MaxSignals
    /\ rec_version' = watch_send(rec_version, 1)
    /\ rec_signalled' = (rec_signalled \/ rec_pc # "start")
    /\ UNCHANGED <<rec_pc, rec_seen, sub_pc, sub_seen, rec_channel, mcap, finished,
                   rec_published>>
    /\ UNCHANGED <<camVars, parseVars, weatherVars, inferVars>>

\* lines 31-45: run subscribes to the shutdown channel, creates the file,
\* the writer and the channel
Rec_Start ==
    /\ rec_pc = "start"
    /\ rec_seen' = watch_subscribe(rec_version)
    /\ rec_pc' = "spawn"
    /\ UNCHANGED <<rec_version, sub_pc, sub_seen, rec_channel, mcap, finished,
                   rec_published, rec_signalled>>
    /\ UNCHANGED <<camVars, parseVars, weatherVars, inferVars>>

\* lines 47-86: the closure of one topic, run by collect: a receiver of its
\* own, then the task is spawned; after the last topic run enters its loop
Rec_Spawn ==
    /\ rec_pc = "spawn"
    /\ \E t \in RecTopics :
         /\ sub_pc[t] = "none"
         /\ \A u \in RecTopics : u < t => sub_pc[u] # "none"
         /\ sub_seen' = [sub_seen EXCEPT ![t] = watch_subscribe(rec_version)]
         /\ sub_pc' = [sub_pc EXCEPT ![t] = "build"]
         /\ rec_pc' = IF \A u \in RecTopics \ {t} : sub_pc[u] # "none"
                      THEN "loop" ELSE "spawn"
    /\ UNCHANGED <<rec_version, rec_seen, rec_channel, mcap, finished,
                   rec_published, rec_signalled>>
    /\ UNCHANGED <<camVars, parseVars, weatherVars, inferVars>>

\* lines 58-69: the task builds its subscriber, and returns when that fails
Sub_Build(t, ok) ==
    /\ sub_pc[t] = "build"
    /\ sub_pc' = [sub_pc EXCEPT ![t] = IF ok THEN "loop" ELSE "done"]
    /\ UNCHANGED <<rec_pc, rec_version, rec_seen, sub_seen, rec_channel, mcap,
                   finished, rec_published, rec_signalled>>
    /\ UNCHANGED <<camVars, parseVars, weatherVars, inferVars>>

\* line 73: the shutdown arm of the task's select
Sub_Shutdown(t) ==
    /\ sub_pc[t] = "loop"
    /\ watch_changed(sub_seen[t], rec_version)
    /\ sub_seen' = [sub_seen EXCEPT ![t] = rec_version]
    /\ sub_pc' = [sub_pc EXCEPT ![t] = "done"]
    /\ UNCHANGED <<rec_pc, rec_version, rec_seen, rec_channel, mcap, finished,
                   rec_published, rec_signalled>>
    /\ UNCHANGED <<camVars, parseVars, weatherVars, inferVars>>

\* lines 74-79: a sample of the topic is forwarded to the channel; the send
\* fails once run has returned and dropped the receiving end
Sub_Forward(t, decodable) ==
    /\ sub_pc[t] = "loop"
    /\ rec_published < MaxRecMsgs
    /\ rec_published' = rec_published + 1
    /\ IF rec_pc \in {"done_ok", "done_err"}
       THEN /\ sub_pc' = [sub_pc EXCEPT ![t] = "done"]
            /\ UNCHANGED rec_channel
       ELSE /\ rec_channel' = Append(rec_channel, [topic |-> t, decodable |-> decodable])
            /\ UNCHANGED sub_pc
    /\ UNCHANGED <<rec_pc, rec_version, rec_seen, sub_seen, mcap, finished,
                   rec_signalled>>
    /\ UNCHANGED <<camVars, parseVars, weatherVars, inferVars>>

\* lines 91-108: the writing arm: the sample is decoded and written; a
\* payload that does not decode makes run return the error
Rec_Write ==
    /\ rec_pc = "loop"
    /\ rec_channel # <<>>
    /\ rec_channel' = Tail(rec_channel)
    /\ IF Head(rec_channel).decodable
       THEN /\ mcap' = Append(mcap, [topic |-> Head(rec_channel).topic,
                                     finished |-> finished])
            /\ UNCHANGED rec_pc
       ELSE /\ rec_pc' = "done_err"
            /\ UNCHANGED mcap
    /\ UNCHANGED <<rec_version, rec_seen, sub_pc, sub_seen, finished,
                   rec_published, rec_signalled>>
    /\ UNCHANGED <<camVars, parseVars, weatherVars, inferVars>>

\* line 109: the shutdown arm of the writing loop
Rec_LoopShutdown ==
    /\ rec_pc = "loop"
    /\ watch_changed(rec_seen, rec_version)
    /\ rec_seen' = rec_version
    /\ rec_pc' = "join"
    /\ UNCHANGED <<rec_version, sub_pc, sub_seen, rec_channel, mcap, finished,
                   rec_published, rec_signalled>>
    /\ UNCHANGED <<camVars, parseVars, weatherVars, inferVars>>

\* lines 114-119: join_all completes when every task has ended; then the
\* writer is finished and run returns Ok
Rec_JoinAndFinish ==
    /\ rec_pc = "join"
    /\ \A t \in RecTopics : sub_pc[t] = "done"
    /\ finished' = finished + 1
    /\ rec_pc' = "done_ok"
    /\ UNCHANGED <<rec_version, rec_seen, sub_pc, sub_seen, rec_channel, mcap,
                   rec_published, rec_signalled>>
    /\ UNCHANGED <<camVars, parseVars, weatherVars, inferVars>>

\* run is called (mcap_recorder.rs:144), the handler being installed
RecorderInit ==
    /\ CameraIdle /\ ParseIdle /\ WeatherIdle /\ InferIdle
    /\ rec_pc = "start" /\ rec_version = 0 /\ rec_seen = 0
    /\ sub_pc = [t \in RecTopics |-> "none"] /\ sub_seen = [t \in RecTopics |-> 0]
    /\ rec_channel = <<>> /\ mcap = <<>> /\ finished = 0
    /\ rec_published = 0 /\ rec_signalled = FALSE

RecorderNext ==
    \/ Rec_CtrlC \/ Rec_Start \/ Rec_Spawn
    \/ \E t \in RecTopics, ok \in BOOLEAN : Sub_Build(t, ok)
    \/ \E t \in RecTopics : Sub_Shutdown(t)
    \/ \E t \in RecTopics, decodable \in BOOLEAN : Sub_Forward(t, decodable)
    \/ Rec_Write \/ Rec_LoopShutdown \/ Rec_JoinAndFinish

RecorderSpec == RecorderInit /\ [][RecorderNext]_vars

\* ============================================ openmeteo parse_date_to_unix
\* openmeteo_node.rs:135-166.  A string is a sequence of characters; a u64
\* is <<high, low>> with the low limb below Limb.

\* line 146: the year the count of days starts from
EpochYear == 1970

\* the last year of the dates given to the function
LastYear == 2099

DigitChars == <<"0", "1", "2", "3", "4", "5", "6", "7", "8", "9">>

\* the value of a character as a decimal digit, -1 when it is none
digit_value(c) ==
    IF \E i \in 1..10 : DigitChars[i] = c
    THEN (CHOOSE i \in 1..10 : DigitChars[i] = c) - 1
    ELSE -1

\* str::split('-'): the parts between the separators, one part when the
\* string holds no separator
RECURSIVE split_dash(_)
split_dash(s) ==
    IF \A i \in 1..Len(s) : s[i] # "-"
    THEN <<s>>
    ELSE LET k == CHOOSE i \in 1..Len(s) :
                    s[i] = "-" /\ \A j \in 1..(i - 1) : s[j] # "-"
         IN  <<SubSeq(s, 1, k - 1)>> \o split_dash(SubSeq(s, k + 1, Len(s)))

\* str::parse of an unsigned decimal number: -1 stands for Err (an empty
\* part, or a character that is no digit)
RECURSIVE parse_digits(_, _)
parse_digits(s, acc) ==
    IF s = <<>> THEN acc
    ELSE IF digit_value(Head(s)) < 0 THEN -1
    ELSE parse_digits(Tail(s), acc * 10 + digit_value(Head(s)))

parse_number(s) == IF s = <<>> THEN -1 ELSE parse_digits(s, 0)

\* Result::unwrap_or
unwrap_or(parsed, default) == IF parsed < 0 THEN default ELSE parsed

\* lines 154-156
is_leap_year(year) == (year % 4 = 0 /\ year % 100 # 0) \/ (year % 400 = 0)

DAYS == <<0, 31, 59, 90, 120, 151, 181, 212, 243, 273, 304, 334>>

\* the table without the leap day
days_before_month_no_leap(month, leap) ==
    IF month \in 1..12 THEN DAYS[month] ELSE 0

\* lines 158-166
days_before_month(month, leap) ==
    LET d == IF month \in 1..12 THEN DAYS[month] ELSE 0
    IN  IF leap /\ month > 2 THEN d + 1 ELSE d

\* line 151: (days_since_epoch * 86400) as u64, for a count that is not
\* negative; 86400 = Limb + 20864
seconds_of_days(days) ==
    <<days + (days * 20864) \div Limb, (days * 20864) % Limb>>

\* lines 135-152
parse_date_to_unix(date_str) ==
    LET parts == split_dash(date_str) IN
    IF Len(parts) # 3 THEN <<0, 0>>
    ELSE LET year  == unwrap_or(parse_number(parts[1]), 1970)
             month == unwrap_or(parse_number(parts[2]), 1)
             day   == unwrap_or(parse_number(parts[3]), 1)
             days_since_epoch ==
                 (year - 1970) * 365
                 + (year - 1969) \div 4
                 + days_before_month(month, is_leap_year(year))
                 + (day - 1)
         IN  seconds_of_days(days_since_epoch)

\* the days of a month of the calendar
MonthLength(y, m) ==
    IF m = 2 THEN (IF (y % 4 = 0 /\ y % 100 # 0) \/ y % 400 = 0 THEN 29 ELSE 28)
    ELSE IF m \in {4, 6, 9, 11} THEN 30 ELSE 31

\* the calendar dates from EpochYear to LastYear
ValidDates ==
    { <<y, m, d>> \in (EpochYear..LastYear) \X (1..12) \X (1..31) :
        d <= MonthLength(y, m) }

\* a date as the forecast response writes it: YYYY-MM-DD (line 182)
FormatDate(date) ==
    LET y == date[1]  m == date[2]  d == date[3]
        c(n) == DigitChars[n + 1]
    IN  <<c(y \div 1000), c((y \div 100) % 10), c((y \div 10) % 10), c(y % 10),
          "-", c(m \div 10), c(m % 10), "-", c(d \div 10), c(d % 10)>>

\* strings that are no date: too few parts, too many, and parts that are
\* no numbers
OtherStrings ==
    { <<>>, <<"2", "0">>, <<"2", "0", "-", "0", "1">>,
      <<"2", "0", "-", "0", "1", "-", "0", "2", "-", "0", "3">>,
      <<"x", "-", "0", "2", "-", "0", "3">>, <<"-", "-">> }

\* what the function is called with: the string, and the date it was
\* written from (<<>> for the other strings)
DateInputs ==
    { [date_str |-> FormatDate(date), date |-> date] : date \in ValidDates }
    \cup { [date_str |-> s, date |-> <<>>] : s \in OtherStrings }

DateInit ==
    /\ CameraIdle /\ NodeIdle
    /\ parseInput \in DateInputs /\ parseResult = NoResult

Call_parse_date_to_unix ==
    /\ parseResult = NoResult
    /\ parseResult' = [kind |-> "time", time |-> parse_date_to_unix(parseInput.date_str)]
    /\ UNCHANGED <<parseInput, camVars, nodeVars>>

DateNext == Call_parse_date_to_unix

DateSpec == DateInit /\ [][DateNext]_vars

\* ================================================================ claims
SessionsOf(log) == [i \in 1..Len(log) |-> log[i].s]

\* C1: on shutdown of run (run has not failed during startup), the first
\* close() of the Decode Session is preceded by a close() of the Capture
\* Session: capture.close() comes before decoder.close().
C1_CaptureClosedBeforeDecoder ==
    (run_result # "Err" /\ decCloses > 0) =>
        (capCloses > 0 /\ closeLog[1].s = "capture")

\* run has closed both sessions after observing the signal, in this order
C1_Witness ==
    /\ run_pc = "return"
    /\ version > 0
    /\ SessionsOf(closeLog) = <<"capture", "decoder">>

\* C2: whenever the Ctrl+C handler has sent the cancellation signal, run
\* eventually returns (the task has exited, both sessions are closed).
C2_SignalLeadsToReturn == (sigSent > 0) ~> (run_pc = "done")

\* C3: once compressed_task has observed the signal it dequeues, pushes and
\* publishes nothing more; at a select where the signal and a queued frame
\* are both ready no frame is dequeued; and a frame that was queued in
\* Capture when a signal reached the task's receiver is never dequeued or
\* published.
C3_NoAdmissionAfterShutdown ==
    /\ [][(task_end = "shutdown" \/
           (task_pc = "select" /\ watch_changed(version, task_seen) /\ capQ # <<>>))
          => (deqLog' = deqLog /\ pushLog' = pushLog /\ pubLog' = pubLog)]_vars
    /\ [](\A i \in 1..Len(deqLog) : deqLog[i].bytes \notin queuedAtFire)
    /\ [](\A i \in 1..Len(pubLog) : pubLog[i].msg.data \notin queuedAtFire)

\* the task has left its loop on the signal while frames were still queued
C3_Witness ==
    /\ task_end = "shutdown"
    /\ task_pc = "done"
    /\ capQ # <<>>
    /\ queuedAtFire # {}
    /\ Len(pubLog) > 0

\* C4: when the signal is sent while compressed_task handles a frame, the
\* push and the publish of that frame are still made, the signal is pending
\* at the next select (not lost), the task takes no further frame and leaves
\* on the signal, and neither session is closed before the task has ended.
C4_InFlightFrameCompletes ==
    /\ (midFire # 0 /\ task_pc \in {"select", "exit", "done"}) =>
          /\ \E i \in 1..Len(pushLog) : pushLog[i].buf.bytes = midFire
          /\ \E i \in 1..Len(pubLog) : pubLog[i].msg.data = midFire
    /\ (midFire # 0 /\ task_pc = "select") => watch_changed(version, task_seen)
    /\ (midFire # 0) => deqLog[Len(deqLog)].bytes = midFire
    /\ (midFire # 0 /\ task_pc \in {"exit", "done"}) => task_end = "shutdown"
    /\ (task_pc \in {"subscribe", "create_pub", "select", "push", "publish", "exit"}) =>
          (capCloses = 0 /\ decCloses = 0)

\* the signal came mid-frame and the task has ended on it, sessions still open
C4_Witness ==
    /\ midFire # 0
    /\ task_pc = "done"
    /\ task_end = "shutdown"
    /\ capCloses = 0 /\ decCloses = 0

\* C5: every close() call returns Ok, the second one on a session included,
\* and leaves the pipeline stopped (Closed).
C5_CloseIdempotent ==
    /\ \A i \in 1..Len(closeLog) : closeLog[i].r = "Ok"
    /\ capCloses >= 2 => capState \in {"Null", "Dropped"}
    /\ decCloses >= 2 => decState \in {"Null", "Dropped"}

\* run has closed both sessions and Drop has closed both again
C5_Witness ==
    /\ run_result = "Ok"
    /\ capCloses = 2 /\ decCloses = 2
    /\ Len(closeLog) = 4


CapClosed == capCloses > 0 /\ capState = "Null"
DecClosed == decCloses > 0 /\ decState = "Null"

\* C6: Closed is terminal for both session kinds: once close() has been
\* called on a session, no public operation brings its pipeline back to
\* Playing.
C6_ClosedIsTerminal ==
    /\ capCloses > 0 => capState # "Playing"
    /\ decCloses > 0 => decState # "Playing"

\* C7: a push() on a Decode Session that has been closed returns PushError
\* and injects nothing: its buffer is never queued in the appsrc and no
\* decoded frame comes from it.
PushedAfterClose == { pushLog[i].buf.bytes : i \in { k \in 1..Len(pushLog) : pushLog[k].closed } }

C7_PushAfterCloseRejected ==
    /\ \A i \in 1..Len(pushLog) : pushLog[i].closed => pushLog[i].r = "PushError"
    /\ \A i \in 1..Len(decSrcQ) : decSrcQ[i].bytes \notin PushedAfterClose
    /\ \A i \in 1..Len(decQ) : decQ[i].src \notin PushedAfterClose
    /\ \A i \in 1..Len(decRecvLog) : decRecvLog[i].src \notin PushedAfterClose

\* a frame was pushed and decoded, the decoder was closed, a later push failed
C7_Witness ==
    /\ DecClosed
    /\ Len(decRecvLog) > 0
    /\ \E i \in 1..Len(pushLog) : pushLog[i].closed /\ pushLog[i].r = "PushError"

\* C8: on either session, once close() has stopped the pipeline the consumer
\* of the delivery queue eventually gets end-of-stream (unless the session
\* leaves the Closed state).
C8_ConsumerGetsEndOfStream ==
    /\ CapClosed ~> (capCons = "eos" \/ ~CapClosed)
    /\ DecClosed ~> (decCons = "eos" \/ ~DecClosed)

\* C9: the Orchestrator dequeues the captured frames in the order the
\* callback enqueued them, and from one dequeued frame to the next the
\* sequence does not decrease modulo 2^32 (the difference is below 2^31).
HalfRange(d) == d[1] < Limb \div 2

C9_FifoAndMonotonic ==
    /\ Len(deqLog) <= Len(enqLog)
    /\ \A i \in 1..Len(deqLog) : deqLog[i] = enqLog[i]
    /\ \A i \in 1..(Len(deqLog) - 1) :
         HalfRange(wrapping_sub(deqLog[i + 1].seq, deqLog[i].seq))

\* three frames have been dequeued whose sequences run over the wrap,
\* 2^32 - 2, 2^32 - 1, 0, and the last of them has been published
C9_Witness ==
    /\ Len(deqLog) = 3
    /\ deqLog[1].seq = <<Limb - 1, Limb - 2>>
    /\ deqLog[2].seq = U32Max
    /\ deqLog[3].seq = U32Zero
    /\ pubLog # <<>> /\ pubLog[Len(pubLog)].msg.sequence = U32Zero

\* C10: the frames pending in the Capture Session's software delivery queue
\* stay within the depth of the native sink; what exceeds it is dropped by
\* the sink.
C10_SoftwareQueueBounded == Len(capQ) <= MaxBuffers

\* the frames the callback owes the channel: one for every readable sample
\* of the list, in arrival order
RECURSIVE ReadableBytes(_)
ReadableBytes(log) ==
    IF log = <<>> THEN <<>>
    ELSE IF Head(log).readable
         THEN <<Head(log).bytes>> \o ReadableBytes(Tail(log))
         ELSE ReadableBytes(Tail(log))

BytesOf(log) == [i \in 1..Len(log) |-> log[i].bytes]

\* C11: a sample of the capture session that cannot be extracted costs only
\* itself: the callback still reports success (the streaming thread is never
\* stopped by it), the session's state is still the one start() and close()
\* gave it, and the frames sent to the channel are exactly the readable
\* samples rendered so far, in order, the ones after a failure included.
C11_CaptureFailureDropsOneFrame ==
    /\ ~capHalted
    /\ BytesOf(enqLog) = ReadableBytes(sampleLog)
    /\ (capCloses = 0 /\ capArrived > 0) => capState = "Playing"

\* an unreadable sample was followed by a readable one, which was enqueued
\* while the session was still Playing
C11_Witness ==
    /\ Len(sampleLog) >= 2
    /\ ~sampleLog[1].readable
    /\ sampleLog[2].readable
    /\ Len(enqLog) >= 1 /\ enqLog[1].bytes = 2
    /\ capState = "Playing"

\* C12: a picture the decode session cannot extract costs only itself: the
\* decoder pipeline keeps running, so every buffer that push() has queued in
\* the appsrc is eventually taken up by the decoder.
C12_DecodeFailureRecovered == [](decSrcQ # <<>> => <>(decSrcQ = <<>>))

\* the native sample a captured frame was extracted from
SampleOf(frame) == sampleLog[frame.bytes]

\* C13: a captured buffer with neither PTS nor DTS is dropped: no frame the
\* orchestrator receives from the capture channel comes from such a buffer.
C13_UntimedBufferDropped ==
    \A i \in 1..Len(deqLog) :
        SampleOf(deqLog[i]).pts # None \/ SampleOf(deqLog[i]).dts # None

\* C14: a failure of decoder.push, a push on a closed decoder included, is
\* only logged. Once the loop body of a dequeued frame is over, that frame
\* has had its push and its publish attempt, in the order of dequeuing; while
\* the body waits for the publish, the frame has had its push; and the loop
\* ends for no other reason than the shutdown signal.
C14_PushFailureOnlyLogged ==
    /\ task_pc \in {"select", "exit", "done"} =>
           /\ Len(pushLog) = Len(deqLog)
           /\ Len(pubLog) = Len(deqLog)
    /\ task_pc = "publish" =>
           /\ Len(pushLog) = Len(deqLog)
           /\ Len(pubLog) = Len(deqLog) - 1
    /\ \A i \in 1..Len(pubLog) : pubLog[i].msg.data = deqLog[i].bytes
    /\ task_pc \in {"exit", "done"} => task_end = "shutdown"

\* the push of the first frame failed on the closed decoder, the frame was
\* published all the same, and the next frame was pushed and published too
C14_Witness ==
    /\ Len(pubLog) >= 2
    /\ pushLog[1].r = "PushError" /\ pushLog[1].closed
    /\ pubLog[1].msg.data = pushLog[1].buf.bytes
    /\ pubLog[2].msg.data = pushLog[2].buf.bytes
    /\ pubLog[2].msg.data # pubLog[1].msg.data

\* C15: the i-th published message is built from the i-th frame received
\* from the capture channel, and from nothing else: acquisition time = its
\* pts, sequence = its sequence, source label = the camera name, format =
\* "h264", payload = its bytes; the buffer pushed to the decoder for that
\* frame has the same frame's bytes and pts, and is marked as a delta unit
\* exactly when the frame is no keyframe.
C15_MessageFromOneFrame ==
    /\ Len(pubLog) <= Len(deqLog) /\ Len(pushLog) <= Len(deqLog)
    /\ \A i \in 1..Len(pubLog) :
          /\ pubLog[i].msg.acq_time = deqLog[i].pts
          /\ pubLog[i].msg.sequence = deqLog[i].seq
          /\ pubLog[i].msg.frame_id = config.name
          /\ pubLog[i].msg.format = "h264"
          /\ pubLog[i].msg.data = deqLog[i].bytes
    /\ \A i \in 1..Len(pushLog) :
          /\ pushLog[i].buf.bytes = deqLog[i].bytes
          /\ pushLog[i].buf.pts = deqLog[i].pts
          /\ pushLog[i].buf.delta = ~deqLog[i].keyframe

\* two frames with different pts, sequence and keyframe flag were pushed and
\* published
C15_Witness ==
    /\ Len(pubLog) >= 2
    /\ pubLog[1].msg.acq_time # pubLog[2].msg.acq_time
    /\ pubLog[1].msg.sequence # pubLog[2].msg.sequence
    /\ pushLog[1].buf.delta # pushLog[2].buf.delta
    /\ pubLog[1].msg.data = 1

\* the submissions to the sink that carried the payload b
SubmissionsOf(b) == { i \in 1..Len(pubLog) : pubLog[i].msg.data = b }

\* C16: every frame received from the capture channel is submitted to the
\* publish sink exactly once: never twice, and once as soon as its loop body
\* is over; after a failed submission the next one is for the next frame.
C16_SubmittedExactlyOnce ==
    /\ \A i \in 1..Len(deqLog) :
          /\ Cardinality(SubmissionsOf(deqLog[i].bytes)) <= 1
          /\ (i < Len(deqLog) \/ task_pc \in {"select", "exit", "done"}) =>
                 SubmissionsOf(deqLog[i].bytes) = {i}
    /\ \A i \in 1..Len(pubLog) - 1 :
          ~pubLog[i].ok => pubLog[i + 1].msg.data = deqLog[i + 1].bytes

\* a publish failed and the submission after it carried the next frame
C16_Witness ==
    /\ Len(pubLog) >= 2
    /\ ~pubLog[1].ok
    /\ published = 1
    /\ pubLog[2].ok
    /\ pubLog[2].msg.data = deqLog[2].bytes
    /\ pubLog[2].msg.data # pubLog[1].msg.data

\* C17: at most one throughput line per second. Every line comes a second
\* or more after the line before it (the first one after the start of the
\* task), counts the frames successfully published since then, and divides
\* them by the time elapsed since then.
C17_OneLinePerSecond ==
    \A i \in 1..Len(fpsLog) :
        /\ fpsLog[i].sinceAt = (IF i = 1 THEN 0 ELSE fpsLog[i - 1].at)
        /\ fpsLog[i].at - fpsLog[i].sinceAt >= TicksPerSec
        /\ fpsLog[i].frames = fpsLog[i].okSince
        /\ fpsLog[i].elapsed = fpsLog[i].at - fpsLog[i].sinceAt

\* two lines were logged, both for periods with successful publishes, and a
\* publish had failed
C17_Witness ==
    /\ Len(fpsLog) = 2
    /\ fpsLog[1].frames > 1
    /\ fpsLog[2].frames > 1
    /\ fpsLog[2].frames # fpsLog[1].frames
    /\ published < bodies

\* C18: 30 frames published successfully, evenly spaced, within the first
\* second: the throughput reported for that second, frames over elapsed
\* seconds in the first line, is between 29 and 31 frames a second, whenever
\* the frame after them arrives.
C18_ThirtyFramesReported ==
    (Len(fpsLog) >= 1 /\ fpsLog[1].evenRun = 30) =>
        /\ 29 * fpsLog[1].elapsed <= fpsLog[1].frames * TicksPerSec
        /\ fpsLog[1].frames * TicksPerSec <= 31 * fpsLog[1].elapsed

\* C19: push flags the injected buffer as a delta unit exactly when it is
\* called with keyframe = false, and so, for every frame that goes from the
\* capture session through the orchestrator into the decoder, the injected
\* buffer is a delta unit exactly when the captured buffer was one.
C19_DeltaFlagPreserved ==
    \A i \in 1..Len(pushLog) :
        /\ pushLog[i].buf.delta = ~pushLog[i].key
        /\ pushLog[i].buf.delta = SampleOf(pushLog[i].buf).delta

\* a key frame and a delta frame have both been injected into the running
\* decoder
C19_Witness ==
    /\ Len(pushLog) >= 2
    /\ pushLog[1].r = "Ok" /\ pushLog[2].r = "Ok"
    /\ ~SampleOf(pushLog[1].buf).delta /\ ~pushLog[1].buf.delta
    /\ SampleOf(pushLog[2].buf).delta /\ pushLog[2].buf.delta

\* the places of a pipeline description where a stage named n stands
StagesNamed(p, n) == { i \in 1..Len(p) : p[i].el = n }

\* C20: once the decoder is built, for every backend and every requested
\* size: with a GPU backend (Nvidia, Jetson) the pipeline has no videoscale
\* stage and a single caps filter, the one that follows the converter
\* nvvidconv and carries the requested width x height; with the Software
\* backend it has one videoscale stage, followed at once by its single caps
\* filter, which carries the requested width x height.
C20_BackendTopology ==
    decPipeline # <<>> =>
        LET p == decPipeline
            caps == StagesNamed(p, "caps")
            scale == StagesNamed(p, "videoscale")
            requested == CapsFilter(config.width, config.height)
        IN /\ Cardinality(caps) = 1
           /\ \A k \in caps : p[k] = requested /\ k > 1
           /\ IF DecoderBackend_from(config.decoder) \in {"Nvidia", "Jetson"}
              THEN /\ scale = {}
                   /\ \A k \in caps : p[k - 1].el = "nvvidconv"
              ELSE /\ Cardinality(scale) = 1
                   /\ \A k \in caps : k - 1 \in scale

\* a GPU decoder was built for a size whose width and height differ
C20_Witness ==
    /\ decPipeline # <<>>
    /\ config.decoder = "jetson"
    /\ config.width = 1920 /\ config.height = 480
    /\ Len(decPipeline) = 6

\* C21: when the construction of the capture session or of the decode
\* session fails, run returns the error and the camera does not start: run
\* never gets past the construction without the session, its result is the
\* error, no orchestrator task is spawned, nothing is pushed or published
\* and no heartbeat is sent.
C21_ConstructionErrorIsFatal ==
    LET captureFailed == capState = "Absent" /\ run_pc # "new_capture"
        decoderFailed ==
            decState = "Absent" /\ run_pc \notin {"new_capture", "start", "new_decoder"}
    IN (captureFailed \/ decoderFailed) =>
          /\ run_result = "Err"
          /\ run_pc \in {"drop_capture", "done"}
          /\ task_pc = "unspawned"
          /\ pushLog = <<>> /\ pubLog = <<>>
          /\ ~hbSent

\* the capture session was started and delivered a frame, the decoder could
\* not be built, and run has returned
C21_Witness ==
    /\ run_pc = "done" /\ run_result = "Err"
    /\ decState = "Absent"
    /\ capArrived > 0
    /\ Len(capQ) > 0

\* the close() calls made so far on the session named s
ClosesOf(s) == { i \in 1..Len(closeLog) : closeLog[i].s = s }

\* C22: guaranteed release. Once run has returned and dropped its handles,
\* on whichever path, every session that was constructed has had its
\* close() and is gone.
C22_GuaranteedRelease ==
    run_pc = "done" =>
        /\ capState # "Absent" => (capState = "Dropped" /\ ClosesOf("capture") # {})
        /\ decState # "Absent" => (decState = "Dropped" /\ ClosesOf("decoder") # {})

\* run has returned the error of the health publisher's declaration: both
\* sessions existed, neither had been closed by run, both are released
C22_Witness ==
    /\ run_pc = "done" /\ run_result = "Err"
    /\ decState = "Dropped" /\ capState = "Dropped"
    /\ Len(closeLog) = 2
    /\ task_pc = "unspawned"

\* C23: on an early return of run with an error after both sessions exist,
\* the capture session is closed before the decode session: whenever the
\* decode session has been closed on such a path, the first close() in
\* the log is the capture session's.
C23_CaptureFirstOnError ==
    (run_result = "Err" /\ ClosesOf("decoder") # {}) =>
        (ClosesOf("capture") # {} /\ closeLog[1].s = "capture")

\* C24: the native pipelines are stopped by close() only. From the spawning
\* of compressed_task until run calls capture.close(), whatever the task
\* does and however it ends, both sessions are Playing and neither has had
\* a close().
C24_StoppedOnlyByClose ==
    run_pc \in {"subscribe", "select", "heartbeat", "join", "close_capture"} =>
        /\ capState = "Playing" /\ decState = "Playing"
        /\ closeLog = <<>>

\* the task has ended on the cancellation signal after publishing a frame,
\* run has not closed anything yet, and both pipelines are Playing
C24_Witness ==
    /\ task_pc = "done" /\ task_end = "shutdown"
    /\ Len(pubLog) > 0
    /\ run_pc = "join"
    /\ capState = "Playing" /\ decState = "Playing"

\* run has left its heartbeat loop
RunLeftLoop ==
    \/ run_pc \in {"join", "close_capture", "close_decoder", "return"}
    \/ run_pc \in {"drop_decoder", "drop_capture", "done"} /\ task_pc # "unspawned"

\* C26: after a successful startup only the cancellation signal makes run
\* return. Once the task is spawned run's result is never an error, and run
\* has left its loop only if the signal was sent and reached the channel,
\* whatever extraction errors, publish failures or early ends of the task
\* there were.
C26_OnlyCancellationEndsRun ==
    /\ task_pc # "unspawned" => run_result # "Err"
    /\ RunLeftLoop => (sigSent > 0 /\ version > 0)

\* no signal was sent; a sample could not be extracted, a publish failed,
\* the decoder's streaming thread stopped, and run is still in its loop,
\* heartbeats sent
C26_Witness ==
    /\ sigSent = 0
    /\ run_pc = "select" /\ hbSent
    /\ \E i \in 1..Len(sampleLog) : ~sampleLog[i].readable
    /\ \E i \in 1..Len(pubLog) : ~pubLog[i].ok
    /\ decHalted

\* a string holds a character outside the class
HasCharOutside(class, s) == \E i \in 1..Len(s) : s[i] \notin class
\* the bounds as the claim lists them, of a deserialized configuration
C27_ViolatesListedBounds(c) ==
    \/ Len(c.url) = 0
    \/ c.width \notin 1..7680
    \/ c.height \notin 1..4320
    \/ c.latency \notin 1..10000
    \/ HasCharOutside(NameChars, c.name)
    \/ HasCharOutside(TopicChars, c.publish_topic)

\* C27 (as stated): for a document that deserializes, Config::parse returns
\* an error exactly when url is empty, width is outside 1..=7680, height is
\* outside 1..=4320, latency is outside 1..=10000, or name or publish_topic
\* contain a character outside their allowed sets; otherwise it returns the
\* parsed configuration.
C27_ErrorExactlyOnListedBounds ==
    (parseResult.kind # "none" /\ from_str(parseInput).kind = "Ok") =>
        LET c == from_str(parseInput).config IN
        IF C27_ViolatesListedBounds(c)
        THEN parseResult.kind = "Err"
        ELSE parseResult = [kind |-> "Ok", config |-> c]

\* C27 (amended): Config::parse returns a configuration exactly when the
\* document deserializes, name and publish_topic are non-empty and hold only
\* characters of their allowed sets, url is non-empty, width is in 1..=7680,
\* height in 1..=4320 and latency (200 when the document has none) in
\* 1..=10000; the configuration returned has the document's values. In
\* every other case, the empty name and the empty topic included, it
\* returns an error.
C27_ParseBoundsWithEmptyNames ==
    parseResult.kind # "none" =>
        LET y == parseInput
            lat == IF y.latency = <<>> THEN 200 ELSE y.latency[1]
            good == /\ y.width \in 1..7680 /\ y.height \in 1..4320
                    /\ lat \in 1..10000
                    /\ y.url # <<>>
                    /\ y.name # <<>> /\ ~HasCharOutside(NameChars, y.name)
                    /\ y.publish_topic # <<>>
                    /\ ~HasCharOutside(TopicChars, y.publish_topic)
        IN  /\ parseResult.kind \in {"Ok", "Err"}
            /\ parseResult.kind = "Ok" <=> good
            /\ parseResult.kind = "Ok" =>
                 /\ parseResult.config.name = y.name
                 /\ parseResult.config.publish_topic = y.publish_topic
                 /\ parseResult.config.url = y.url
                 /\ parseResult.config.width = y.width
                 /\ parseResult.config.height = y.height
                 /\ parseResult.config.latency = lat

\* an empty name with every listed bound respected has been rejected
C27_Witness ==
    /\ parseResult.kind = "Err"
    /\ parseInput.name = <<>>
    /\ parseInput.width = 7680 /\ parseInput.height = 4320
    /\ parseInput.latency = <<10000>>
    /\ from_str(parseInput).kind = "Ok"
    /\ ~C27_ViolatesListedBounds(from_str(parseInput).config)

\* C28: openmeteo FetchConfig::validate returns Ok exactly when the three
\* interval fields are within 1..=86400, hourly_forecast_hours is within
\* 1..=384 and daily_forecast_days is within 1..=16, the bounds included;
\* a single field outside its range is enough for an error.
C28_OkExactlyWithinBounds ==
    parseResult.kind # "none" =>
        /\ parseResult.kind \in {"Ok", "Err"}
        /\ parseResult.kind = "Ok" <=>
             /\ parseInput.current_interval_secs \in 1..86400
             /\ parseInput.hourly_interval_secs \in 1..86400
             /\ parseInput.daily_interval_secs \in 1..86400
             /\ parseInput.hourly_forecast_hours \in 1..384
             /\ parseInput.daily_forecast_days \in 1..16
        /\ (\E k \in DOMAIN parseInput :
               /\ parseInput[k] # FetchConfig_default[k]
               /\ parseInput[k] \in {0, 86401, 385, 17}
               /\ \A j \in DOMAIN parseInput \ {k} :
                      parseInput[j] = FetchConfig_default[j])
             => parseResult.kind = "Err"

\* only the daily interval is out of range, and validate has refused
C28_Witness ==
    /\ parseResult.kind = "Err"
    /\ parseInput = [FetchConfig_default EXCEPT !.daily_interval_secs = 86401]

\* C29: once capture.close() has been called, no step of run's execution
\* calls decoder.push or publishes a frame: the push log and the publish
\* log do not change any more.
C29_NoPushOrPublishAfterCaptureClose ==
    [][capCloses > 0 => (pushLog' = pushLog /\ pubLog' = pubLog)]_vars

\* run has closed the capture session after the task pushed and published
C29_Witness ==
    /\ capCloses > 0 /\ run_pc = "done" /\ run_result = "Ok"
    /\ task_pc = "done"
    /\ Len(pushLog) > 0 /\ Len(pubLog) > 0
    /\ closeLog[1].s = "capture"

\* C30: while the camera instance runs (run is in its loop), a decoded frame
\* waiting in the Decode Session's delivery queue is eventually taken out by
\* a consumer: a non-empty queue leads to an empty queue, unless run leaves
\* its loop first.
C30_DecodedFramesEventuallyTaken ==
    (decQ # <<>> /\ run_pc \in {"select", "heartbeat"})
        ~> (decQ = <<>> \/ run_pc \notin {"select", "heartbeat"})

\* the u32 with the value n, for n below 2^31
U32Of(n) == <<n \div Limb, n % Limb>>

\* C31: the Capture Session's software queue drops nothing: the frames the
\* Orchestrator dequeues are, in order, the readable samples of the stream,
\* the i-th of them numbered i - 1, and the callback's counter equals the
\* number of samples extracted, so a sample whose extraction failed leaves
\* no gap in the numbers.
C31_DequeuedSequenceConsecutive ==
    /\ \A i \in 1..Len(deqLog) :
         /\ deqLog[i].seq = U32Of(i - 1)
         /\ i > 1 => deqLog[i].seq = wrapping_add(deqLog[i - 1].seq)
         /\ deqLog[i].bytes = ReadableBytes(sampleLog)[i]
    /\ capState = "Playing" => capSeq = U32Of(Len(ReadableBytes(sampleLog)))

\* the second sample of the stream could not be extracted, and the frames
\* dequeued around it are numbered 0 and 1
C31_Witness ==
    /\ Len(sampleLog) = 3
    /\ sampleLog[1].readable /\ ~sampleLog[2].readable /\ sampleLog[3].readable
    /\ Len(deqLog) = 2
    /\ deqLog[1].bytes = 1 /\ deqLog[2].bytes = 3
    /\ deqLog[2].seq = <<0, 1>>

\* C32: the frames in the Decode Session's delivery queue stand in the order
\* their encoded frames were pushed and are numbered 0, 1, 2, ... by the
\* session's one counter, which equals the number of frames delivered: a
\* sample that yields no frame, or whose extraction failed, takes no
\* number, and the number does not come from the encoded frame.
C32_DecodedSequenceConsecutive ==
    /\ \A i \in 1..Len(decQ) : decQ[i].seq = U32Of(i - 1)
    /\ \A i, j \in 1..Len(decQ) : i < j => decQ[i].src < decQ[j].src
    /\ decState = "Playing" => decSeq = U32Of(Len(decQ))

\* the first encoded frame gave no picture, the second was decoded as
\* frame 0 although it was captured as frame 1, and a later extraction has
\* failed without taking a number
C32_Witness ==
    /\ Len(decQ) = 1 /\ decQ[1].seq = U32Zero
    /\ \E i \in 1..Len(enqLog) :
         enqLog[i].bytes = decQ[1].src /\ enqLog[i].seq = <<0, 1>>
    /\ decHalted /\ decSeq = <<0, 1>>

\* C33: a capture.start() that does not reach the running state makes run
\* fail at once, on its way to releasing the capture session; and once run
\* has failed, no step starts the capture session, constructs the Decode
\* Session or spawns the orchestrator task.
C33_StartFailureIsFatal ==
    [][ /\ (run_pc = "start" /\ run_pc' # "start" /\ capState' # "Playing")
            => (run_result' = "Err" /\ run_pc' = "drop_capture")
        /\ run_pc = "start" => capState # "Playing"
        /\ run_result = "Err"
            => /\ run_result' = "Err"
               /\ run_pc' \in {"drop_decoder", "drop_capture", "done"}
               /\ capState # "Playing" => capState' # "Playing"
               /\ decState = "Absent" => decState' = "Absent"
               /\ task_pc' = "unspawned" ]_vars

\* start() has failed: the capture session exists and never played, run
\* has its error and is about to drop the session, no decoder, no task
C33_Witness ==
    /\ run_pc = "drop_capture" /\ run_result = "Err"
    /\ capState = "Null" /\ decState = "Absent" /\ task_pc = "unspawned"

\* C34: in run's loop a tick of the health interval is taken exactly when
\* no cancellation signal is pending, after the tick nothing the
\* orchestrator task or the camera does keeps the heartbeat from being
\* published, and once run has left the loop it never comes back to the
\* heartbeat.
C34_HeartbeatIndependentOfFrames ==
    /\ [][ /\ (run_pc = "select" /\ run_pc' # "select")
               => IF watch_changed(version, run_seen)
                  THEN run_pc' = "join"
                  ELSE run_pc' = "heartbeat"
           /\ (run_pc = "heartbeat" /\ run_pc' # "heartbeat")
               => (run_pc' = "select" /\ hbSent')
           /\ RunLeftLoop => (run_pc' \notin {"select", "heartbeat"} /\ hbSent' = hbSent)
         ]_vars
    /\ [](run_pc = "heartbeat" => ENABLED Run_Heartbeat)

\* the task has ended with an error before any frame arrived and before
\* any signal, and run has taken a tick and is publishing the heartbeat
C34_Witness ==
    /\ task_pc = "done" /\ task_end = "error"
    /\ sigSent = 0 /\ capArrived = 0
    /\ run_pc = "heartbeat"

\* C35: every publish the sink rejected has produced a log event, and
\* `published` counts exactly the accepted ones.
C35_FailedPublishLogged ==
    /\ \A i \in 1..Len(pubLog) : ~pubLog[i].ok => pubLog[i].events # <<>>
    /\ task_pc # "unspawned"
         => published = Cardinality({ i \in 1..Len(pubLog) : pubLog[i].ok })

\* the period of a stream's fetch interval
PeriodOf(stream) ==
    CASE stream = "current" -> fetch_config.current_interval_secs
      [] stream = "hourly"  -> fetch_config.hourly_interval_secs
      [] stream = "daily"   -> fetch_config.daily_interval_secs

\* C36: after a location update the next fetch of each stream does not wait
\* a full period: when a period of a stream has passed since the update was
\* handled, the stream has been fetched for the new location within that
\* period.
C36_UpdateTriggersFetchAtOnce ==
    \A stream \in {"current", "hourly", "daily"} :
        (lastUpdate.at >= 0 /\ wx_now >= lastUpdate.at + PeriodOf(stream))
        => \E i \in (lastUpdate.fetches + 1)..Len(fetchLog) :
              /\ fetchLog[i].stream = stream
              /\ fetchLog[i].location = location
              /\ fetchLog[i].at < lastUpdate.at + PeriodOf(stream)

\* the accepted puts of a stream, in order
OkPuts(stream) ==
    LET Accepted(e) == e.stream = stream /\ e.ok
    IN SelectSeq(putLog, Accepted)

\* x + n modulo 2^32
RECURSIVE AddN(_, _)
AddN(x, n) == IF n = 0 THEN x ELSE AddN(wrapping_add(x), n - 1)

SeqOf(stream) ==
    CASE stream = "current" -> current_seq
      [] stream = "hourly"  -> hourly_seq
      [] stream = "daily"   -> daily_seq

\* C38: each stream numbers its messages with its own counter: the i-th
\* accepted message of a stream carries the counter's first value plus
\* i - 1 modulo 2^32, and the counter stands at the first value plus the
\* number of accepted messages, so a failed fetch and a rejected put take
\* no number. The first value is 0 in a fresh node.
C38_StreamSequenceConsecutive ==
    \A stream \in {"current", "hourly", "daily"} :
        /\ \A i \in 1..Len(OkPuts(stream)) :
              OkPuts(stream)[i].sequence = AddN(wxBase, i - 1)
        /\ SeqOf(stream) = AddN(wxBase, Len(OkPuts(stream)))
        /\ (putLog = <<>> /\ lastUpdate = NoUpdate /\ wx_now = 0 /\ wxBase = U32Zero
              /\ fetchLog = <<>>) => SeqOf(stream) = U32Zero

\* the current stream has published 2^32 - 1, had a put rejected with the
\* number 0 and then published 0, while the hourly stream is further on
C38_Witness ==
    /\ Len(OkPuts("current")) = 2
    /\ OkPuts("current")[1].sequence = U32Max
    /\ OkPuts("current")[2].sequence = U32Zero
    /\ \E i \in 1..Len(putLog) :
         putLog[i].stream = "current" /\ ~putLog[i].ok /\ putLog[i].sequence = U32Zero
    /\ current_seq = <<0, 1>>
    /\ hourly_seq # current_seq

\* the samples taken from the subscriber so far
SamplesTaken == arrived - Len(subscriber)

\* C37: every iteration of the inference node's receive loop processes the
\* newest sample of the batch it found and skips all older ones, and after
\* every iteration frame_count + total_dropped is the number of samples
\* taken from the subscriber, whether or not the sample kept decoded.
C37_NewestOnlyAndAllCounted ==
    /\ frame_count + total_dropped = SamplesTaken
    /\ frame_count = Len(recvLog)
    /\ \A i \in 1..Len(recvLog) :
         /\ recvLog[i].sample = recvLog[i].batch[Len(recvLog[i].batch)]
         /\ \A j \in 1..Len(recvLog[i].batch) :
              recvLog[i].batch[j].id <= recvLog[i].sample.id

\* an iteration found three samples, kept the newest, whose payload did
\* not decode, and counted one frame and two dropped
C37_Witness ==
    /\ Len(recvLog) = 1
    /\ Len(recvLog[1].batch) = 3
    /\ recvLog[1].sample.id = 3 /\ ~recvLog[1].decoded
    /\ frame_count = 1 /\ total_dropped = 2

\* C39: in the recorder node, a shutdown signal sent at any moment after
\* run has started stops the writing loop and ends every subscription task,
\* so that writer.finish() is called exactly once before run returns Ok, and
\* nothing is written after finish().  For the tasks to end, every task
\* that is running once the signal is sent must have the signal pending on
\* its receiver; finish() is called at most once and no record follows it.
C39_ShutdownEndsEveryTask ==
    /\ rec_signalled =>
         \A t \in RecTopics :
            sub_pc[t] \in {"build", "loop"} => watch_changed(sub_seen[t], rec_version)
    /\ finished <= 1
    /\ \A i \in 1..Len(mcap) : mcap[i].finished = 0
    /\ rec_pc = "done_ok" => finished = 1

\* the parts of C39 that do not depend on the tasks ending: finish() is
\* called at most once, only with every task ended, and no record follows it
C39_FinishOnceAndLast ==
    /\ finished <= 1
    /\ \A i \in 1..Len(mcap) : mcap[i].finished = 0
    /\ rec_pc = "done_ok" <=> finished = 1
    /\ finished = 1 => \A t \in RecTopics : sub_pc[t] = "done"

\* run waits at the join for a task that has already seen the only signal
C39_Stuck ==
    /\ rec_pc = "join" /\ rec_signalled
    /\ \E t \in RecTopics : sub_pc[t] = "loop" /\ ~watch_changed(sub_seen[t], rec_version)

\* the days from 1970-01-01 to the first day of year y, counted year by year
RECURSIVE DaysBeforeYear(_)
DaysBeforeYear(y) ==
    IF y <= 1970 THEN 0
    ELSE DaysBeforeYear(y - 1) + MonthLength(y - 1, 2) + 337

\* the days from the first day of year y to the first day of month m
RECURSIVE DaysBeforeMonthOf(_, _)
DaysBeforeMonthOf(y, m) ==
    IF m <= 1 THEN 0 ELSE DaysBeforeMonthOf(y, m - 1) + MonthLength(y, m - 1)

\* the days from 1970-01-01 to a date
DaysSinceEpoch(date) ==
    DaysBeforeYear(date[1]) + DaysBeforeMonthOf(date[1], date[2]) + date[3] - 1

\* n * 86400 as <<high, low>>: 86400 = 675 * 128 and Limb = 512 * 128
TimesDay(n) == <<(n * 675) \div 512, ((n * 675) % 512) * 128>>

\* C40: for every calendar date from 1970-01-01 through 2099-12-31 written
\* as YYYY-MM-DD, parse_date_to_unix returns the number of days since
\* 1970-01-01 times 86400; for a string that does not split into three
\* parts at '-' it returns 0.
C40_DateToMidnightUtc ==
    parseResult.kind = "time" =>
        /\ parseInput.date # <<>> =>
             parseResult.time = TimesDay(DaysSinceEpoch(parseInput.date))
        /\ Len(split_dash(parseInput.date_str)) # 3 => parseResult.time = <<0, 0>>

\* the last day of a leap year, after 2038, has been converted
C40_Witness ==
    /\ parseResult.kind = "time"
    /\ parseInput.date = <<2096, 12, 31>>
    /\ parseResult.time = TimesDay(46386)

\* a string of two parts has been converted to 0
C40_WitnessNoDate ==
    /\ parseResult.kind = "time"
    /\ parseInput.date_str = <<"2", "0", "-", "0", "1">>
    /\ parseResult.time = <<0, 0>>

============================================================================
